---- MODULE Spec2Model ----
(***************************************************************************)
(* Booking engine of the meeting scheduler: slot holds, booking            *)
(* confirmation, the expiration sweeper and the events they publish.       *)
(*                                                                         *)
(* Storage is PostgreSQL at its default isolation level (READ COMMITTED):  *)
(* every statement reads the rows committed when it starts, a row written  *)
(* by a transaction is invisible to the others until the commit, and a     *)
(* writer that conflicts with an uncommitted write (same unique key, same  *)
(* exclusion range, same row) waits for that commit.  The writes of one    *)
(* transaction therefore take effect at its commit, and the model performs *)
(* them there in one step; the reads that precede them are steps of their  *)
(* own, so that other requests interleave between a read and the write     *)
(* that depends on it.  A handler made of one auto-committed UPDATE and    *)
(* the publication of its event is one step.                               *)
(*                                                                         *)
(* Request, key and meeting-type names are interchangeable, so requests    *)
(* start in the order of their names, the first one names meeting type     *)
(* mt1 and a key is used only after the keys below it.                     *)
(***************************************************************************)
EXTENDS Integers, Sequences, FiniteSets, Bags

\* ---------------------------------------------------------------- bounds
MaxStart == 2        \* slot starts are the instants 0..MaxStart
SlotLen == 2         \* length of a requested slot, in slot instants
NKeys == 2           \* idempotency keys 1..NKeys
MaxTicks == 2        \* the clock advances at most MaxTicks times
MaxDocs == 2         \* documents created by createNda
MaxEvents == 3       \* messages stored in the BOOKINGS stream of the real-time gateway
MaxDay == 1          \* the calendar dates are 0..MaxDay
DayLen == 2          \* slot instants in a day: date d is [d * DayLen, (d + 1) * DayLen)
MaxOver == 1         \* requests counted in one rate-limit window beyond the limit
MaxElapse == 2       \* the rate limiter's clock advances at most MaxElapse windows

HoldReqs == {1, 2}   \* the create-hold requests that may be issued
ConfReqs == {1, 2}   \* the confirm requests that may be issued
WebReqs == {1, 2}    \* the webhook deliveries that may arrive

\* ------------------------------------------------------------- constants
HOLD_DURATION_MS == 15 * 60 * 1000
TickMs == HOLD_DURATION_MS

Keys == 1..NKeys
MeetingTypes == {"mt1", "mt2"}
Slots == {<<s, s + SlotLen>> : s \in 0..MaxStart}
MaxHolds == Cardinality(HoldReqs)

VARIABLES now, holds, bookings, hreq, creq, bus,
          requiresNda, documents, webhooks, wreq,
          env, inbox, deadLetter, countsFrom,
          stream, clients,
          availabilityRules, blackoutDates, meetingType, sreq,
          store, reached, rres,
          pages

\* the meeting_types, documents and processed_webhooks tables and the webhook requests
ndaVars == <<requiresNda, documents, webhooks, wreq>>

\* the configuration of the process (process.env); the messages of the
\* booking-processor consumer, the DEAD_LETTER stream and what the client library
\* reports as info.redeliveryCount on a first delivery
edgeVars == <<env, inbox, deadLetter, countsFrom, stream, clients,
              availabilityRules, blackoutDates, meetingType, sreq, store, reached, rres,
              pages>>

\* the availability_rules and blackout_dates tables, the meeting type's duration and
\* buffers, and the get-slots request with its response
slotVars == <<availabilityRules, blackoutDates, meetingType, sreq>>

\* the rate limiter's store, the requests it has let through and its last response
rateVars == <<store, reached, rres>>

\* the BOOKINGS stream as the real-time gateway reads it and its SSE clients
rtVars == <<stream, clients>>

\* the state of the public booking pages that are open in browsers
pageVars == <<pages>>

vars == <<now, holds, bookings, hreq, creq, bus, requiresNda, documents, webhooks, wreq,
          env, inbox, deadLetter, countsFrom, stream, clients,
          availabilityRules, blackoutDates, meetingType, sreq, store, reached, rres,
          pages>>

\* ------------------------------------------------------------- storage
\* tstzrange(a1, a2, '[)') && tstzrange(b1, b2, '[)')
Overlaps_startInside(a1, a2, b1, b2) == (a1 < b1 /\ b1 < a2) \/ (b1 < a1 /\ a1 < b2)
Overlaps(a1, a2, b1, b2) == a1 < b2 /\ b1 < a2 /\ a1 < a2 /\ b1 < b2

HoldIds == DOMAIN holds
BookingIds == DOMAIN bookings

\* SELECT ... FROM slot_holds WHERE meeting_type_id = mt AND status = 'active' AND range && [s, e)
holdConflict_unexpired(mt, s, e) ==
    \E h \in HoldIds : /\ holds[h].mt = mt
                       /\ holds[h].status = "active"
                       /\ holds[h].expiresAt >= now
                       /\ Overlaps(holds[h].slotStart, holds[h].slotEnd, s, e)
holdConflict_anyStatus(mt, s, e) ==
    \E h \in HoldIds : /\ holds[h].mt = mt
                       /\ Overlaps(holds[h].slotStart, holds[h].slotEnd, s, e)
holdConflict(mt, s, e) ==
    \E h \in HoldIds : /\ holds[h].mt = mt
                       /\ holds[h].status = "active"
                       /\ Overlaps(holds[h].slotStart, holds[h].slotEnd, s, e)

\* SELECT ... FROM bookings WHERE meeting_type_id = mt AND status = 'confirmed' AND range && [s, e)
bookingConflict(mt, s, e) ==
    \E b \in BookingIds : /\ bookings[b].mt = mt
                          /\ bookings[b].status = "confirmed"
                          /\ Overlaps(bookings[b].slotStart, bookings[b].slotEnd, s, e)

\* EXCLUDE USING GIST (meeting_type_id WITH =, range WITH &&) WHERE (status = 'active'):
\* TRUE when a new active row [s, e) of mt is admitted
no_overlapping_active_holds_off(mt, s, e) == TRUE
no_overlapping_active_holds(mt, s, e) ==
    \A h \in HoldIds : ~ /\ holds[h].mt = mt
                         /\ holds[h].status = "active"
                         /\ Overlaps(holds[h].slotStart, holds[h].slotEnd, s, e)

\* EXCLUDE USING GIST (meeting_type_id WITH =, range WITH &&) WHERE (status = 'confirmed')
no_double_booking_off(mt, s, e) == TRUE
no_double_booking(mt, s, e) ==
    \A b \in BookingIds : ~ /\ bookings[b].mt = mt
                            /\ bookings[b].status = "confirmed"
                            /\ Overlaps(bookings[b].slotStart, bookings[b].slotEnd, s, e)

\* idempotency_key UUID NOT NULL UNIQUE: TRUE when a new row with key k is admitted
slot_holds_idempotency_key_unique(k) == \A h \in HoldIds : holds[h].key # k
bookings_idempotency_key_unique(k) == \A b \in BookingIds : bookings[b].key # k

\* SELECT ... FROM slot_holds WHERE idempotency_key = k
existingHold_none(k) == {}
existingHold(k) == {h \in HoldIds : holds[h].key = k}

\* SELECT ... FROM bookings WHERE idempotency_key = k
existingBooking_none(k) == {}
existingBooking(k) == {b \in BookingIds : bookings[b].key = k}

\* ------------------------------------------------------------ documents
DocIds == DOMAIN documents

\* SELECT ... FROM documents WHERE hold_id = h
documentsOfHold(h) == {d \in DocIds : documents[d].holdId = h}

\* SELECT ... FROM documents WHERE hold_id = h AND status = 'signed'
signedDocument_anyStatus(h) == {d \in DocIds : documents[d].holdId = h}
signedDocument(h) == {d \in DocIds : documents[d].holdId = h /\ documents[d].status = "signed"}

\* UPDATE documents SET booking_id = b WHERE hold_id = h
linkDocuments(h, b) ==
    [d \in DocIds |-> IF documents[d].holdId = h
                      THEN [documents[d] EXCEPT !.bookingId = b]
                      ELSE documents[d]]

\* the advisory-lock key, hashToInt64(`${meetingTypeId}:${slotStart}`); distinct
\* strings are taken to hash to distinct keys
lockKey(mt, s) == <<mt, s>>

holdsLock(r) == hreq[r].pc \in {"locked", "holdChecked", "insert"}

lockFree(mt, s) ==
    \A r \in HoldReqs : holdsLock(r) => lockKey(hreq[r].mt, hreq[r].slotStart) # lockKey(mt, s)

\* event envelopes, reduced to the fields the model reads: type, subject id, reason
SlotHeld(h) == [type |-> "slot.held", id |-> h, reason |-> "none"]
SlotReleased(h, why) == [type |-> "slot.released", id |-> h, reason |-> why]
BookingConfirmed(b) == [type |-> "booking.confirmed", id |-> b, reason |-> "none"]
BookingCanceled(b) == [type |-> "booking.canceled", id |-> b, reason |-> "none"]
NdaCreated(d) == [type |-> "nda.created", id |-> d, reason |-> "none"]
NdaSent(d) == [type |-> "nda.sent", id |-> d, reason |-> "none"]
NdaSigned(d, at) == [type |-> "nda.signed", id |-> d, reason |-> "none", signedAt |-> at]
NdaExpired(d) == [type |-> "nda.expired", id |-> d, reason |-> "none"]

\* js.publish(subject, data): the events join the stream
publish(es) == bus' = bus (+) SetToBag(es)

IdleHold == [pc |-> "idle", mt |-> "mt1", slotStart |-> 0, slotEnd |-> 0, key |-> 0,
             code |-> 0, holdId |-> 0, error |-> "none", atCall |-> "none", conc |-> {}]

IdleConf == [pc |-> "idle", holdId |-> 0, key |-> 0, code |-> 0, bookingId |-> 0,
             error |-> "none", atCall |-> "none", replay |-> FALSE, conc |-> {}]

IdleWeb == [pc |-> "idle", doc |-> 0, event |-> "none", hold |-> 0, code |-> 0,
            body |-> "none", replay |-> FALSE, signedAt |-> 0, signature |-> <<>>,
            existing |-> "none"]

\* NODE_ENV and SIGNWELL_WEBHOOK_SECRET (0: the variable is not set)
NodeEnvs == {"development", "production"}
Secrets == {0, 1, 2}
DefaultEnv == [nodeEnv |-> "production", secret |-> 1]

\* no message waits for the booking-processor consumer
IdleBus == inbox = <<>> /\ deadLetter = <<>> /\ countsFrom = 1

Clients == {1}        \* the SSE connection that may be opened
IdleClient == [pc |-> "idle", meetingTypeId |-> "none", cursor |-> 0, frames |-> <<>>]

\* nothing is stored in the BOOKINGS stream and no client is connected
IdleRealtime == stream = <<>> /\ clients = [c \in Clients |-> IdleClient]

\* a meeting type of one slot instant without buffers, no rule, no blackout and no
\* get-slots request
IdleSlotReq == [pc |-> "idle", mt |-> "none", startDate |-> 0, endDate |-> 0,
                minBookingTime |-> 0, slots |-> <<>>]
IdleSlots ==
    /\ availabilityRules = <<>>
    /\ blackoutDates = <<>>
    /\ meetingType = [durationMinutes |-> 1, bufferBeforeMinutes |-> 0,
                      bufferAfterMinutes |-> 0]
    /\ sreq = IdleSlotReq

\* the rate limiter's store is empty and it has answered no request
Ips == {"ip1", "ip2"}
IdleRate ==
    /\ store = [ip \in {} |-> [count |-> 0, resetAt |-> 0]]
    /\ reached = [ip \in Ips |-> <<>>]
    /\ rres = [ip |-> "none", status |-> 0, retryAfter |-> 0]

\* the public booking pages that may be open, each for the meeting type mt1; page p
\* sends its create-hold request as request p with the idempotency key p (a fresh
\* crypto.randomUUID() per request)
Pages == {1, 2}
\* useState: step, selectedSlot (<<>> is null), holdId (0 is null), isSubmitting and
\* blockedSlots; notices are the titles of the toasts shown so far, request is the
\* create-hold request on the way to the server (<<>> when there is none) and seen
\* the events the page's EventSource has received on its present connection
IdlePage == [step |-> "select-slot", selectedSlot |-> <<>>, holdId |-> 0,
             isSubmitting |-> FALSE, blockedSlots |-> {}, notices |-> {},
             request |-> <<>>, seen |-> {}]
IdlePages == pages = [p \in Pages |-> IdlePage]

\* the parts of the system outside X are idle
EdgeIdle(X) ==
    /\ "page" \in X \/ IdlePages
    /\ "bus" \in X \/ IdleBus
    /\ "realtime" \in X \/ IdleRealtime
    /\ "slots" \in X \/ IdleSlots
    /\ "rate" \in X \/ IdleRate

InitCore ==
    /\ now = 0
    /\ holds = <<>>
    /\ bookings = <<>>
    /\ hreq = [r \in HoldReqs |-> IdleHold]
    /\ creq = [r \in ConfReqs |-> IdleConf]
    /\ bus = EmptyBag
    /\ requiresNda = [mt \in MeetingTypes |-> FALSE]
    /\ documents = <<>>
    /\ webhooks = <<>>
    /\ wreq = [r \in WebReqs |-> IdleWeb]
    /\ env = DefaultEnv

Init == InitCore /\ EdgeIdle({})

\* --------------------------------------------------------------- clock
\* time passes; it is observed only through the expires_at of active holds
Tick ==
    /\ now < MaxTicks * TickMs
    /\ \E h \in HoldIds : holds[h].status = "active"
    /\ now' = now + TickMs
    /\ UNCHANGED <<holds, bookings, hreq, creq, bus>>
    /\ UNCHANGED ndaVars
    /\ UNCHANGED edgeVars

\* ---------------------------------------------- POST /:slug/hold, createHold
\* the route's answer to a failure: 409 with result.error, or an unhandled error (500)
HoldFail(r, c, msg) == hreq' = [hreq EXCEPT ![r].pc = "done", ![r].code = c, ![r].error = msg]

inFlightHolds == {r \in HoldReqs : hreq[r].pc \notin {"idle", "done"}}

\* what a caller finds of the slot [s, e) of mt: "busy" when an active hold or a
\* confirmed booking overlaps it, else "swept" when a hold on it has been expired by
\* the sweeper, else "free"
slotState(mt, s, e) ==
    IF holdConflict(mt, s, e) \/ bookingConflict(mt, s, e) THEN "busy"
    ELSE IF \E h \in HoldIds : /\ holds[h].mt = mt
                               /\ Overlaps(holds[h].slotStart, holds[h].slotEnd, s, e)
                               /\ holds[h].status = "expired"
                               /\ CopiesIn([type |-> "slot.released", id |-> h,
                                            reason |-> "expired"], bus) > 0
    THEN "swept"
    ELSE "free"

\* The route resolves the meeting type and createHold runs its idempotency select.
HoldBegin(r, mt, slot, k) ==
    /\ hreq[r].pc = "idle"
    /\ \A q \in HoldReqs : q < r => hreq[q].pc # "idle"
    /\ \A j \in 1..(k - 1) : \E q \in HoldReqs : hreq[q].pc # "idle" /\ hreq[q].key = j
    /\ (r = 1 => mt = "mt1")
    /\ LET me == [IdleHold EXCEPT !.mt = mt, !.slotStart = slot[1], !.slotEnd = slot[2],
                                  !.key = k, !.atCall = slotState(mt, slot[1], slot[2]),
                                  !.conc = inFlightHolds]
           existing == existingHold(k)
       IN IF existing # {}
          THEN LET h == CHOOSE x \in existing : TRUE
               IN IF holds[h].status = "active"
                  THEN hreq' = [hreq EXCEPT ![r] = [me EXCEPT !.pc = "publish", !.holdId = h]]
                  ELSE hreq' = [hreq EXCEPT ![r] = [me EXCEPT !.pc = "done", !.code = 409,
                                                              !.error = "Previous hold expired"]]
          ELSE hreq' = [hreq EXCEPT ![r] = [me EXCEPT !.pc = "lock"]]
    /\ UNCHANGED <<now, holds, bookings, creq, bus>>
    /\ UNCHANGED ndaVars
    /\ UNCHANGED edgeVars

\* SELECT pg_advisory_xact_lock(lockKey): waits while another transaction holds the key.
HoldLock(r) ==
    /\ hreq[r].pc = "lock"
    /\ lockFree(hreq[r].mt, hreq[r].slotStart)
    /\ hreq' = [hreq EXCEPT ![r].pc = "locked"]
    /\ UNCHANGED <<now, holds, bookings, creq, bus>>
    /\ UNCHANGED ndaVars
    /\ UNCHANGED edgeVars

\* 4. Check for conflicts with active holds
HoldCheckHolds(r) ==
    /\ hreq[r].pc = "locked"
    /\ IF holdConflict(hreq[r].mt, hreq[r].slotStart, hreq[r].slotEnd)
       THEN HoldFail(r, 409, "Slot already held")
       ELSE hreq' = [hreq EXCEPT ![r].pc = "holdChecked"]
    /\ UNCHANGED <<now, holds, bookings, creq, bus>>
    /\ UNCHANGED ndaVars
    /\ UNCHANGED edgeVars

\* 5. Check for conflicts with confirmed bookings
HoldCheckBookings(r) ==
    /\ hreq[r].pc = "holdChecked"
    /\ IF bookingConflict(hreq[r].mt, hreq[r].slotStart, hreq[r].slotEnd)
       THEN HoldFail(r, 409, "Slot already booked")
       ELSE hreq' = [hreq EXCEPT ![r].pc = "insert"]
    /\ UNCHANGED <<now, holds, bookings, creq, bus>>
    /\ UNCHANGED ndaVars
    /\ UNCHANGED edgeVars

\* the insert with the publication of slot.held moved before the commit
HoldInsert_publishFirst(r) ==
    /\ hreq[r].pc = "insert"
    /\ publish({SlotHeld(Len(holds) + 1)})
    /\ IF ~ slot_holds_idempotency_key_unique(hreq[r].key)
       THEN HoldFail(r, 500, "slot_holds_idempotency_key_unique") /\ UNCHANGED holds
       ELSE IF ~ no_overlapping_active_holds(hreq[r].mt, hreq[r].slotStart, hreq[r].slotEnd)
       THEN HoldFail(r, 409, "no_overlapping_active_holds") /\ UNCHANGED holds
       ELSE /\ holds' = Append(holds, [mt |-> hreq[r].mt, slotStart |-> hreq[r].slotStart,
                                       slotEnd |-> hreq[r].slotEnd, status |-> "active",
                                       expiresAt |-> now + HOLD_DURATION_MS,
                                       key |-> hreq[r].key])
            /\ hreq' = [hreq EXCEPT ![r].pc = "publish", ![r].holdId = Len(holds) + 1]
    /\ UNCHANGED <<now, bookings, creq>>
    /\ UNCHANGED ndaVars
    /\ UNCHANGED edgeVars

\* 6. INSERT INTO slot_holds, and commit.  The unique index on idempotency_key is
\* older than the exclusion constraint and is checked first; its violation is not
\* caught by createHold and leaves the route as an unhandled error (500).  The
\* violation of the exclusion constraint is caught and answered 'Slot already held'.
HoldInsert(r) ==
    /\ hreq[r].pc = "insert"
    /\ IF ~ slot_holds_idempotency_key_unique(hreq[r].key)
       THEN HoldFail(r, 500, "slot_holds_idempotency_key_unique") /\ UNCHANGED holds
       ELSE IF ~ no_overlapping_active_holds(hreq[r].mt, hreq[r].slotStart, hreq[r].slotEnd)
       THEN HoldFail(r, 409, "no_overlapping_active_holds") /\ UNCHANGED holds
       ELSE /\ holds' = Append(holds, [mt |-> hreq[r].mt, slotStart |-> hreq[r].slotStart,
                                       slotEnd |-> hreq[r].slotEnd, status |-> "active",
                                       expiresAt |-> now + HOLD_DURATION_MS,
                                       key |-> hreq[r].key])
            /\ hreq' = [hreq EXCEPT ![r].pc = "publish", ![r].holdId = Len(holds) + 1]
    /\ UNCHANGED <<now, bookings, creq, bus>>
    /\ UNCHANGED ndaVars
    /\ UNCHANGED edgeVars

\* result.success: publishSlotHeld, then 201
HoldPublish(r) ==
    /\ hreq[r].pc = "publish"
    /\ publish({SlotHeld(hreq[r].holdId)})
    /\ hreq' = [hreq EXCEPT ![r].pc = "done", ![r].code = 201]
    /\ UNCHANGED <<now, holds, bookings, creq>>
    /\ UNCHANGED ndaVars
    /\ UNCHANGED edgeVars

\* ------------------------------------------- releaseHold, expireHolds
\* UPDATE slot_holds SET status = ... WHERE id = h AND status = 'active' RETURNING,
\* then publishSlotReleased for the row that was changed; first are the events the
\* caller has published before the call
releaseHold_publishAlways(h, reason, first) ==
    IF h \in HoldIds /\ holds[h].status = "active"
    THEN /\ holds' = [holds EXCEPT ![h].status =
                         IF reason = "converted" THEN "converted" ELSE "released"]
         /\ publish(first \cup {SlotReleased(h, reason)})
    ELSE /\ UNCHANGED holds
         /\ publish(first \cup {SlotReleased(h, reason)})
releaseHold(h, reason, first) ==
    IF h \in HoldIds /\ holds[h].status = "active"
    THEN /\ holds' = [holds EXCEPT ![h].status =
                         IF reason = "converted" THEN "converted" ELSE "released"]
         /\ publish(first \cup {SlotReleased(h, reason)})
    ELSE /\ UNCHANGED holds
         /\ publish(first)

\* DELETE /:slug/hold/:holdId (404 when there is no such hold)
ReleaseHoldRoute(h) ==
    /\ h \in HoldIds
    /\ releaseHold(h, "canceled", {})
    /\ UNCHANGED <<now, bookings, hreq, creq>>
    /\ UNCHANGED ndaVars
    /\ UNCHANGED edgeVars

\* the sweeper: UPDATE ... WHERE status = 'active' AND expires_at < now RETURNING,
\* then publishSlotReleased for each returned row
expireHolds_late ==
    LET expired == {h \in HoldIds : /\ holds[h].status = "active"
                                    /\ holds[h].expiresAt + HOLD_DURATION_MS < now}
    IN /\ expired # {}
       /\ holds' = [h \in HoldIds |-> IF h \in expired
                                      THEN [holds[h] EXCEPT !.status = "expired"]
                                      ELSE holds[h]]
       /\ publish({SlotReleased(h, "expired") : h \in expired})
       /\ UNCHANGED <<now, bookings, hreq, creq>>
       /\ UNCHANGED ndaVars
       /\ UNCHANGED edgeVars
expireHolds_noStatus ==
    LET expired == {h \in HoldIds : holds[h].expiresAt < now}
    IN /\ expired # {}
       /\ holds' = [h \in HoldIds |-> IF h \in expired
                                      THEN [holds[h] EXCEPT !.status = "expired"]
                                      ELSE holds[h]]
       /\ publish({SlotReleased(h, "expired") : h \in expired})
       /\ UNCHANGED <<now, bookings, hreq, creq>>
       /\ UNCHANGED ndaVars
       /\ UNCHANGED edgeVars
expireHolds ==
    LET expired == {h \in HoldIds : holds[h].status = "active" /\ holds[h].expiresAt < now}
    IN /\ expired # {}
       /\ holds' = [h \in HoldIds |-> IF h \in expired
                                      THEN [holds[h] EXCEPT !.status = "expired"]
                                      ELSE holds[h]]
       /\ publish({SlotReleased(h, "expired") : h \in expired})
       /\ UNCHANGED <<now, bookings, hreq, creq>>
       /\ UNCHANGED ndaVars
       /\ UNCHANGED edgeVars

\* ------------------------------------- POST /:slug/confirm, confirmBooking
ConfFail(r, c, msg) == creq' = [creq EXCEPT ![r].pc = "done", ![r].code = c, ![r].error = msg]

inFlightConfs == {r \in ConfReqs : creq[r].pc \notin {"idle", "done"}}

\* what a caller finds of hold h: its status, "past" for an active hold whose
\* expires_at is before now, "missing" when there is no such row
holdState(h) ==
    IF h \notin HoldIds THEN "missing"
    ELSE IF holds[h].status = "active" /\ holds[h].expiresAt < now THEN "past"
    ELSE holds[h].status

\* confirmBooking's validation of the hold it loaded
validateHold_noStatus(h) ==
    IF h \notin HoldIds THEN "Hold not found"
    ELSE IF holds[h].expiresAt < now THEN "Hold has expired"
    ELSE "ok"
validateHold(h) ==
    IF h \notin HoldIds THEN "Hold not found"
    ELSE IF holds[h].status # "active" THEN "Hold is " \o holds[h].status
    ELSE IF holds[h].expiresAt < now THEN "Hold has expired"
    ELSE "ok"

\* The route loads the hold (404 when there is none) and confirmBooking runs its
\* idempotency select.
ConfirmBegin(r, h, k) ==
    /\ creq[r].pc = "idle"
    /\ \A q \in ConfReqs : q < r => creq[q].pc # "idle"
    /\ \A j \in 1..(k - 1) : \E q \in ConfReqs : creq[q].pc # "idle" /\ creq[q].key = j
    /\ LET me == [IdleConf EXCEPT !.holdId = h, !.key = k, !.atCall = holdState(h),
                                  !.conc = inFlightConfs]
           existing == existingBooking(k)
       IN IF h \notin HoldIds
          THEN creq' = [creq EXCEPT ![r] = [me EXCEPT !.pc = "done", !.code = 404,
                                                      !.error = "Hold not found"]]
          ELSE IF existing # {}
          THEN creq' = [creq EXCEPT ![r] = [me EXCEPT !.pc = "respond", !.replay = TRUE,
                                               !.bookingId = CHOOSE b \in existing : TRUE]]
          ELSE creq' = [creq EXCEPT ![r] = [me EXCEPT !.pc = "load"]]
    /\ UNCHANGED <<now, holds, bookings, hreq, bus>>
    /\ UNCHANGED ndaVars
    /\ UNCHANGED edgeVars

\* 2. Get and validate hold, 3. Get meeting type
ConfirmLoadHold(r) ==
    /\ creq[r].pc = "load"
    /\ LET v == validateHold(creq[r].holdId)
       IN IF v = "ok"
          THEN creq' = [creq EXCEPT ![r].pc =
                           IF requiresNda[holds[creq[r].holdId].mt] THEN "nda" ELSE "insert"]
          ELSE IF v = "Hold has expired" THEN creq' = [creq EXCEPT ![r].pc = "expire"]
          ELSE ConfFail(r, 400, v)
    /\ UNCHANGED <<now, holds, bookings, hreq, bus>>
    /\ UNCHANGED ndaVars
    /\ UNCHANGED edgeVars

\* UPDATE slot_holds SET status = 'expired' WHERE id = holdId, and commit
ConfirmExpire(r) ==
    /\ creq[r].pc = "expire"
    /\ holds' = [holds EXCEPT ![creq[r].holdId].status = "expired"]
    /\ ConfFail(r, 400, "Hold has expired")
    /\ UNCHANGED <<now, bookings, hreq, bus>>
    /\ UNCHANGED ndaVars
    /\ UNCHANGED edgeVars

\* 4. Check if NDA is required and signed
ConfirmCheckNda(r) ==
    /\ creq[r].pc = "nda"
    /\ IF signedDocument(creq[r].holdId) = {}
       THEN ConfFail(r, 400, "NDA must be signed before booking")
       ELSE creq' = [creq EXCEPT ![r].pc = "insert"]
    /\ UNCHANGED <<now, holds, bookings, hreq, bus>>
    /\ UNCHANGED ndaVars
    /\ UNCHANGED edgeVars

\* 5. INSERT INTO bookings, 6. UPDATE slot_holds SET status = 'converted' WHERE
\* id = holdId, 7. UPDATE documents SET booking_id WHERE hold_id = holdId, and commit.
\* A violation rolls the transaction back.  The unique index on idempotency_key is checked before
\* the exclusion constraint; its violation is not caught (500).
ConfirmInsert(r) ==
    /\ creq[r].pc = "insert"
    /\ LET h == creq[r].holdId
       IN IF ~ bookings_idempotency_key_unique(creq[r].key)
          THEN ConfFail(r, 500, "bookings_idempotency_key_unique")
               /\ UNCHANGED <<holds, bookings, documents>>
          ELSE IF ~ no_double_booking(holds[h].mt, holds[h].slotStart, holds[h].slotEnd)
          THEN ConfFail(r, 400, "Slot already booked")
               /\ UNCHANGED <<holds, bookings, documents>>
          ELSE /\ bookings' = Append(bookings,
                      [mt |-> holds[h].mt, slotStart |-> holds[h].slotStart,
                       slotEnd |-> holds[h].slotEnd, status |-> "confirmed",
                       key |-> creq[r].key, fromHold |-> h])
               /\ holds' = [holds EXCEPT ![h].status = "converted"]
               /\ documents' = linkDocuments(h, Len(bookings) + 1)
               /\ creq' = [creq EXCEPT ![r].pc = "respond", ![r].bookingId = Len(bookings) + 1]
    /\ UNCHANGED <<now, hreq, bus, requiresNda, webhooks, wreq>>
    /\ UNCHANGED edgeVars

\* result.success: publishBookingConfirmed, releaseHold(holdId, 'converted'), 200
ConfirmRespond(r) ==
    /\ creq[r].pc = "respond"
    /\ releaseHold(creq[r].holdId, "converted", {BookingConfirmed(creq[r].bookingId)})
    /\ creq' = [creq EXCEPT ![r].pc = "done", ![r].code = 200]
    /\ UNCHANGED <<now, bookings, hreq>>
    /\ UNCHANGED ndaVars
    /\ UNCHANGED edgeVars

\* ------------------------------ cancelBooking, markAsCompleted, markAsNoShow
cancelBooking(b) ==
    /\ b \in BookingIds
    /\ bookings[b].status = "confirmed"
    /\ bookings' = [bookings EXCEPT ![b].status = "canceled"]
    /\ publish({BookingCanceled(b)})
    /\ UNCHANGED <<now, holds, hreq, creq>>
    /\ UNCHANGED ndaVars
    /\ UNCHANGED edgeVars

markAsCompleted_anyStatus(b) ==
    /\ b \in BookingIds
    /\ bookings' = [bookings EXCEPT ![b].status = "completed"]
    /\ UNCHANGED <<now, holds, hreq, creq, bus>>
    /\ UNCHANGED ndaVars
    /\ UNCHANGED edgeVars

markAsCompleted(b) ==
    /\ b \in BookingIds
    /\ bookings[b].status = "confirmed"
    /\ bookings' = [bookings EXCEPT ![b].status = "completed"]
    /\ UNCHANGED <<now, holds, hreq, creq, bus>>
    /\ UNCHANGED ndaVars
    /\ UNCHANGED edgeVars

markAsNoShow(b) ==
    /\ b \in BookingIds
    /\ bookings[b].status = "confirmed"
    /\ bookings' = [bookings EXCEPT ![b].status = "no_show"]
    /\ UNCHANGED <<now, holds, hreq, creq, bus>>
    /\ UNCHANGED ndaVars
    /\ UNCHANGED edgeVars

\* ------------------------------------------- POST /nda/create, createNda
\* The route and createNda check that the hold exists and is active, that its meeting
\* type requires an NDA and that the document found for the hold (any of them, the
\* select is unordered) is not signed; then the document is inserted as pending and
\* nda.created is published.  A refused request changes nothing.
createNda(h) ==
    /\ h \in HoldIds
    /\ requiresNda[holds[h].mt]
    /\ holds[h].status = "active"
    /\ documentsOfHold(h) = {} \/ \E d \in documentsOfHold(h) : documents[d].status # "signed"
    /\ Len(documents) < MaxDocs
    /\ documents' = Append(documents, [holdId |-> h, status |-> "pending",
                                       signedAt |-> 0, bookingId |-> 0])
    /\ publish({NdaCreated(Len(documents) + 1)})
    /\ UNCHANGED <<now, holds, bookings, hreq, creq, requiresNda, webhooks, wreq>>
    /\ UNCHANGED edgeVars

\* ------------------------------------------------- POST /webhooks/signwell
WebhookEvents == {"document_sent", "document_completed", "document_expired", "document_viewed"}

\* the values of the X-Signwell-Signature header: <<>> when the header is missing,
\* else a string of digits of any length; a digest has two digits
HexDigits == {0, 1}
Signatures == {<<>>} \cup [1..1 -> HexDigits] \cup [1..2 -> HexDigits]

eventCode(ev) ==
    CASE ev = "document_sent" -> 1
      [] ev = "document_completed" -> 2
      [] ev = "document_expired" -> 3
      [] OTHER -> 4

\* createHmac('sha256', secret).update(body).digest('hex') of the body of the delivery
\* of event ev for envelope d: a keyed digest of fixed length
createHmac(secret, d, ev) ==
    <<(secret + d) % 2, (secret * eventCode(ev) + d) % 2>>

\* verifySignwellSignature: a missing header fails, timingSafeEqual throws on buffers
\* of different lengths (caught: false) and compares buffers of the same length
verifySignwellSignature(signature, d, ev, secret) ==
    IF signature = <<>> THEN FALSE
    ELSE IF Len(signature) # Len(createHmac(secret, d, ev)) THEN FALSE
    ELSE signature = createHmac(secret, d, ev)

\* const webhookId = `${body.document_id}:${body.event}`
webhookId(d, ev) == <<d, ev>>

widOf(r) == webhookId(wreq[r].doc, wreq[r].event)

inFlightWebs == {r \in WebReqs : wreq[r].pc \notin {"idle", "done"}}

\* UPDATE processed_webhooks SET status, response_body WHERE (provider, webhook_id) = wid;
\* INSERT when there is no such row
putWebhook(wid, st, resp) ==
    webhooks' = [w \in DOMAIN webhooks \cup {wid} |->
                    IF w = wid THEN [status |-> st, responseBody |-> resp] ELSE webhooks[w]]

\* UPDATE documents SET status = st, signed_at = at (when given) WHERE hold_id = h
setDocumentsOfHold(h, st, at) ==
    [d \in DocIds |-> IF documents[d].holdId = h
                      THEN [documents[d] EXCEPT !.status = st,
                                                !.signedAt = IF at = 0 THEN @ ELSE at]
                      ELSE documents[d]]

\* A delivery for envelope d arrives (its signature is valid) and the idempotency
\* select runs: a completed record answers with the cached body.
WebhookBegin_noCache(r, d, ev, sig) ==
    /\ wreq[r].pc = "idle"
    /\ \A q \in WebReqs : q < r => wreq[q].pc # "idle"
    /\ d \in DocIds
    /\ LET wid == webhookId(d, ev)
           me == [IdleWeb EXCEPT !.doc = d, !.event = ev, !.hold = documents[d].holdId,
                                 !.signature = sig]
       IN IF env.secret # 0 /\ ~ verifySignwellSignature(sig, d, ev, env.secret)
          THEN wreq' = [wreq EXCEPT ![r] = [me EXCEPT !.pc = "done", !.code = 401,
                                              !.body = "Invalid signature"]]
          ELSE IF wid \in DOMAIN webhooks
          THEN wreq' = [wreq EXCEPT ![r] = [me EXCEPT !.pc = "update"]]
          ELSE wreq' = [wreq EXCEPT ![r] = [me EXCEPT !.pc = "insert"]]
    /\ UNCHANGED <<now, holds, bookings, hreq, creq, bus, requiresNda, documents, webhooks>>
    /\ UNCHANGED edgeVars

\* A delivery for envelope d arrives with the signature header sig.  With a configured
\* secret a signature that does not verify is answered 401; without one the check is
\* skipped.  Then the idempotency select runs: a completed record answers with the
\* cached body.
WebhookBegin(r, d, ev, sig) ==
    /\ wreq[r].pc = "idle"
    /\ \A q \in WebReqs : q < r => wreq[q].pc # "idle"
    /\ d \in DocIds
    /\ LET wid == webhookId(d, ev)
           me == [IdleWeb EXCEPT !.doc = d, !.event = ev, !.hold = documents[d].holdId,
                                 !.signature = sig]
       IN IF env.secret # 0 /\ ~ verifySignwellSignature(sig, d, ev, env.secret)
          THEN wreq' = [wreq EXCEPT ![r] = [me EXCEPT !.pc = "done", !.code = 401,
                                              !.body = "Invalid signature"]]
          ELSE IF wid \in DOMAIN webhooks /\ webhooks[wid].status = "completed"
          THEN wreq' = [wreq EXCEPT ![r] = [me EXCEPT !.pc = "done", !.code = 200,
                                              !.replay = TRUE, !.existing = "completed",
                                              !.body = webhooks[wid].responseBody]]
          ELSE IF wid \in DOMAIN webhooks
          THEN wreq' = [wreq EXCEPT ![r] = [me EXCEPT !.pc = "update",
                                              !.existing = webhooks[wid].status]]
          ELSE wreq' = [wreq EXCEPT ![r] = [me EXCEPT !.pc = "insert"]]
    /\ UNCHANGED <<now, holds, bookings, hreq, creq, bus, requiresNda, documents, webhooks>>
    /\ UNCHANGED edgeVars

\* INSERT INTO processed_webhooks ... status 'processing'; UNIQUE (provider, webhook_id)
\* refuses a second row, and the error leaves the route unhandled (500)
WebhookInsert(r) ==
    /\ wreq[r].pc = "insert"
    /\ IF widOf(r) \in DOMAIN webhooks
       THEN /\ wreq' = [wreq EXCEPT ![r].pc = "done", ![r].code = 500,
                                    ![r].body = "processed_webhooks_provider_webhook_id_key"]
            /\ UNCHANGED webhooks
       ELSE /\ putWebhook(widOf(r), "processing", "null")
            /\ wreq' = [wreq EXCEPT ![r].pc = "update"]
    /\ UNCHANGED <<now, holds, bookings, hreq, creq, bus, requiresNda, documents>>
    /\ UNCHANGED edgeVars

\* switch (body.event): the UPDATE of the documents of the hold
WebhookUpdate(r) ==
    /\ wreq[r].pc = "update"
    /\ LET ev == wreq[r].event
           h == wreq[r].hold
       IN IF ev = "document_sent"
          THEN /\ documents' = setDocumentsOfHold(h, "sent", 0)
               /\ wreq' = [wreq EXCEPT ![r].pc = "publish"]
          ELSE IF ev = "document_completed"
          THEN /\ documents' = setDocumentsOfHold(h, "signed", now + 1)
               /\ wreq' = [wreq EXCEPT ![r].pc = "publish", ![r].signedAt = now + 1]
          ELSE IF ev = "document_expired"
          THEN /\ documents' = setDocumentsOfHold(h, "expired", 0)
               /\ wreq' = [wreq EXCEPT ![r].pc = "publish"]
          ELSE /\ UNCHANGED documents
               /\ wreq' = [wreq EXCEPT ![r].pc = "mark"]
    /\ UNCHANGED <<now, holds, bookings, hreq, creq, bus, requiresNda, webhooks>>
    /\ UNCHANGED edgeVars

\* the SELECT of a document of the hold (any of them) and the publication of its event
WebhookPublish(r) ==
    /\ wreq[r].pc = "publish"
    /\ \E d \in documentsOfHold(wreq[r].hold) :
           publish({IF wreq[r].event = "document_sent" THEN NdaSent(d)
                    ELSE IF wreq[r].event = "document_completed"
                    THEN NdaSigned(d, wreq[r].signedAt)
                    ELSE NdaExpired(d)})
    /\ wreq' = [wreq EXCEPT ![r].pc = "mark"]
    /\ UNCHANGED <<now, holds, bookings, hreq, creq, requiresNda, documents, webhooks>>
    /\ UNCHANGED edgeVars

\* Mark webhook as processed, answer { received: true }
WebhookComplete(r) ==
    /\ wreq[r].pc = "mark"
    /\ putWebhook(widOf(r), "completed", "received")
    /\ wreq' = [wreq EXCEPT ![r].pc = "done", ![r].code = 200, ![r].body = "received"]
    /\ UNCHANGED <<now, holds, bookings, hreq, creq, bus, requiresNda, documents>>
    /\ UNCHANGED edgeVars

WebhookRaise_noMark(r) ==
    /\ wreq[r].pc \in {"update", "publish", "mark"}
    /\ wreq' = [wreq EXCEPT ![r].pc = "done", ![r].code = 500,
                            ![r].body = "Internal Server Error"]
    /\ UNCHANGED <<now, holds, bookings, hreq, creq, bus, requiresNda, documents, webhooks>>
    /\ UNCHANGED edgeVars

\* a statement of the try block throws: Mark as failed, answer 500
WebhookRaise(r) ==
    /\ wreq[r].pc \in {"update", "publish", "mark"}
    /\ putWebhook(widOf(r), "failed", "error")
    /\ wreq' = [wreq EXCEPT ![r].pc = "done", ![r].code = 500,
                            ![r].body = "Internal Server Error"]
    /\ UNCHANGED <<now, holds, bookings, hreq, creq, bus, requiresNda, documents>>
    /\ UNCHANGED edgeVars

\* ------------------------------------------ the nda-processor bus consumer
\* UPDATE documents SET status = st, ...additionalData WHERE id = d
updateDocumentStatus(d, st, at) ==
    documents' = [documents EXCEPT ![d].status = st,
                                   ![d].signedAt = IF at = 0 THEN @ ELSE at]

\* an nda.signed or nda.expired event of the stream is delivered (at least once, so
\* any event published so far may be delivered again)
NdaConsume(e) ==
    /\ e \in BagToSet(bus)
    /\ e.type \in {"nda.signed", "nda.expired"}
    /\ IF e.type = "nda.signed"
       THEN updateDocumentStatus(e.id, "signed", e.signedAt)
       ELSE updateDocumentStatus(e.id, "expired", 0)
    /\ UNCHANGED <<now, holds, bookings, hreq, creq, bus, requiresNda, webhooks, wreq>>
    /\ UNCHANGED edgeVars

\* ------------------------------------- streams, consumers, dead letters
\* a subject is its sequence of tokens; in a stream's subject list "*" stands for
\* exactly one token and ">" for one or more tokens at the end
STREAMS ==
    [BOOKINGS |-> {<<"slot", "held">>, <<"slot", "released">>,
                   <<"booking", "confirmed">>, <<"booking", "canceled">>},
     DOCUMENTS |-> {<<"nda", "created">>, <<"nda", "sent">>,
                    <<"nda", "signed">>, <<"nda", "expired">>},
     NOTIFICATIONS |-> {<<"notify", "email", "requested">>, <<"notify", "email", "sent">>},
     DEAD_LETTER |-> {<<"dlq", "*">>}]

RECURSIVE subjectMatches(_, _)
subjectMatches(pattern, subject) ==
    IF pattern = <<>> THEN subject = <<>>
    ELSE IF subject = <<>> THEN FALSE
    ELSE IF Head(pattern) = ">" THEN Len(pattern) = 1
    ELSE /\ Head(pattern) = "*" \/ Head(pattern) = Head(subject)
         /\ subjectMatches(Tail(pattern), Tail(subject))

\* the streams that store a message published on subject
streamsFor(subject) ==
    {n \in DOMAIN STREAMS : \E p \in STREAMS[n] : subjectMatches(p, subject)}

\* CONSUMERS: booking-processor, maxDeliver
maxDeliver == 5
\* the subjects the booking-processor consumer filters
filterSubjects == {<<"booking", "confirmed">>, <<"booking", "canceled">>}

\* if (deliveryCount >= 4)
DlqThreshold == 4

\* Exponential backoff, by attempt (counted from 0)
getBackoffDelay(attempt) ==
    LET delays == <<1000, 5000, 30000, 120000, 300000>>
    IN delays[(IF attempt < Len(delays) - 1 THEN attempt ELSE Len(delays) - 1) + 1]

Msgs == {1, 2}
MsgIds == DOMAIN inbox

\* msg.info?.redeliveryCount ?? 0
redeliveryCount(m) == inbox[m].numDelivered - 1 + countsFrom

\* the server delivers a message that waits (first delivery, or redelivery after a
\* nak), at most maxDeliver times
BusDeliver(m) ==
    /\ m \in MsgIds
    /\ inbox[m].status = "pending"
    /\ inbox[m].numDelivered < maxDeliver
    /\ inbox' = [inbox EXCEPT ![m].status = "delivered", ![m].numDelivered = @ + 1]
    /\ UNCHANGED <<now, holds, bookings, hreq, creq, bus>>
    /\ UNCHANGED ndaVars
    /\ UNCHANGED <<env, deadLetter, countsFrom>>
    /\ UNCHANGED rtVars
    /\ UNCHANGED slotVars
    /\ UNCHANGED rateVars
    /\ UNCHANGED pageVars

\* the handler returns: msg.ack()
HandlerOk(m) ==
    /\ m \in MsgIds
    /\ inbox[m].status = "delivered"
    /\ inbox' = [inbox EXCEPT ![m].status = "acked"]
    /\ UNCHANGED <<now, holds, bookings, hreq, creq, bus>>
    /\ UNCHANGED ndaVars
    /\ UNCHANGED <<env, deadLetter, countsFrom>>
    /\ UNCHANGED rtVars
    /\ UNCHANGED slotVars
    /\ UNCHANGED rateVars
    /\ UNCHANGED pageVars

\* publishToDeadLetter: js.publish(`dlq.${originalSubject}`, ...) stores the entry in
\* the streams whose subjects match, and throws when no stream does
dlqEntry(m, error, attempts) ==
    [subject |-> <<"dlq">> \o inbox[m].subject, originalSubject |-> inbox[m].subject,
     originalEvent |-> m, error |-> error, attempts |-> attempts]

publishToDeadLetter(m, error, attempts) ==
    IF "DEAD_LETTER" \in streamsFor(<<"dlq">> \o inbox[m].subject)
    THEN deadLetter' = Append(deadLetter, dlqEntry(m, error, attempts))
    ELSE UNCHANGED deadLetter

\* the handler throws: at the threshold the entry is published (a failure of that
\* publication is caught and logged) and the message acknowledged, before it the
\* message is negatively acknowledged with the backoff delay
HandlerFail(m) ==
    /\ m \in MsgIds
    /\ inbox[m].status = "delivered"
    /\ LET deliveryCount == redeliveryCount(m)
       IN IF deliveryCount >= DlqThreshold
          THEN /\ publishToDeadLetter(m, "error", deliveryCount + 1)
               /\ inbox' = [inbox EXCEPT ![m].status = "acked", ![m].dlq = TRUE]
          ELSE /\ inbox' = [inbox EXCEPT ![m].status = "pending", ![m].naks = @ + 1,
                                        ![m].delay = getBackoffDelay(deliveryCount)]
               /\ UNCHANGED deadLetter
    /\ UNCHANGED <<now, holds, bookings, hreq, creq, bus>>
    /\ UNCHANGED ndaVars
    /\ UNCHANGED <<env, countsFrom>>
    /\ UNCHANGED rtVars
    /\ UNCHANGED slotVars
    /\ UNCHANGED rateVars
    /\ UNCHANGED pageVars

\* --------------------------------- GET /slots/:meetingTypeId (SSE gateway)
\* the subject of an event type: its tokens
subjectOf(eventType) ==
    CASE eventType = "slot.held" -> <<"slot", "held">>
      [] eventType = "slot.released" -> <<"slot", "released">>
      [] eventType = "booking.confirmed" -> <<"booking", "confirmed">>
      [] eventType = "booking.canceled" -> <<"booking", "canceled">>
      [] eventType = "nda.created" -> <<"nda", "created">>
      [] eventType = "nda.sent" -> <<"nda", "sent">>
      [] eventType = "nda.signed" -> <<"nda", "signed">>
      [] eventType = "nda.expired" -> <<"nda", "expired">>

\* the event types whose data carry meetingTypeId, and the nda.* types, which do not
BookingEventTypes == {"slot.held", "slot.released", "booking.confirmed", "booking.canceled"}
NdaEventTypes == {"nda.created", "nda.sent", "nda.signed", "nda.expired"}

\* EventPublisher.publish(subject, event): the message is stored in the stream that
\* captures the subject; only the BOOKINGS stream is kept here
StreamPublish(eventType, mt) ==
    /\ Len(stream) < MaxEvents
    /\ IF "BOOKINGS" \in streamsFor(subjectOf(eventType))
       THEN stream' = Append(stream, [subject |-> subjectOf(eventType),
                                      eventType |-> eventType,
                                      meetingTypeId |-> IF eventType \in BookingEventTypes
                                                        THEN mt ELSE "none"])
       ELSE UNCHANGED stream
    /\ UNCHANGED <<now, holds, bookings, hreq, creq, bus>>
    /\ UNCHANGED ndaVars
    /\ UNCHANGED <<env, inbox, deadLetter, countsFrom, clients>>
    /\ UNCHANGED slotVars
    /\ UNCHANGED rateVars
    /\ UNCHANGED pageVars

\* js.consumers.get('BOOKINGS', { filterSubjects: ['slot.*', 'booking.*'] })
consumerFilter == {<<"slot", "*">>, <<"booking", "*">>}

\* the sequence number from which an ordered consumer created without a deliver
\* policy starts: the first message of the stream
startSequence == 1

\* the next message of the stream at or after sequence n that the filter lets through
\* (Len(stream) + 1 when there is none)
RECURSIVE nextMatching(_)
nextMatching(n) ==
    IF n > Len(stream) THEN n
    ELSE IF \E p \in consumerFilter : subjectMatches(p, stream[n].subject) THEN n
    ELSE nextMatching(n + 1)

\* the connection frame says something else than connected
RealtimeConnect_ready(c, mt) ==
    /\ clients[c].pc = "idle"
    /\ \A q \in Clients : q < c => clients[q].pc # "idle"
    /\ clients' = [clients EXCEPT ![c] =
                       [pc |-> "streaming", meetingTypeId |-> mt, cursor |-> startSequence,
                        frames |-> <<[event |-> "ready", seq |-> Len(stream),
                                      meetingTypeId |-> mt]>>]]
    /\ UNCHANGED <<now, holds, bookings, hreq, creq, bus>>
    /\ UNCHANGED ndaVars
    /\ UNCHANGED <<env, inbox, deadLetter, countsFrom, stream>>
    /\ UNCHANGED slotVars
    /\ UNCHANGED rateVars
    /\ UNCHANGED pageVars

\* A client connects for meeting type mt: the ephemeral consumer is created, consume()
\* is called and the connected frame is written; its timestamp is the place of the
\* stream at that time (seq: the number of messages stored so far).
RealtimeConnect(c, mt) ==
    /\ clients[c].pc = "idle"
    /\ \A q \in Clients : q < c => clients[q].pc # "idle"
    /\ clients' = [clients EXCEPT ![c] =
                       [pc |-> "streaming", meetingTypeId |-> mt, cursor |-> startSequence,
                        frames |-> <<[event |-> "connected", seq |-> Len(stream),
                                      meetingTypeId |-> mt]>>]]
    /\ UNCHANGED <<now, holds, bookings, hreq, creq, bus>>
    /\ UNCHANGED ndaVars
    /\ UNCHANGED <<env, inbox, deadLetter, countsFrom, stream>>
    /\ UNCHANGED slotVars
    /\ UNCHANGED rateVars
    /\ UNCHANGED pageVars

\* the loop forwards every message
RealtimeForward_noFilter(c) ==
    /\ clients[c].pc = "streaming"
    /\ nextMatching(clients[c].cursor) <= Len(stream)
    /\ LET n == nextMatching(clients[c].cursor)
           event == stream[n]
       IN clients' = [clients EXCEPT
                         ![c].cursor = n + 1,
                         ![c].frames = Append(@, [event |-> event.eventType, seq |-> n,
                                                  meetingTypeId |-> event.meetingTypeId])]
    /\ UNCHANGED <<now, holds, bookings, hreq, creq, bus>>
    /\ UNCHANGED ndaVars
    /\ UNCHANGED <<env, inbox, deadLetter, countsFrom, stream>>
    /\ UNCHANGED slotVars
    /\ UNCHANGED rateVars
    /\ UNCHANGED pageVars

\* for await (const msg of messages): the next message of the consumer is written as
\* a frame when its data.meetingTypeId is the requested one, and acknowledged
RealtimeForward(c) ==
    /\ clients[c].pc = "streaming"
    /\ nextMatching(clients[c].cursor) <= Len(stream)
    /\ LET n == nextMatching(clients[c].cursor)
           event == stream[n]
       IN clients' = [clients EXCEPT
                         ![c].cursor = n + 1,
                         ![c].frames =
                             IF event.meetingTypeId = clients[c].meetingTypeId
                             THEN Append(@, [event |-> event.eventType, seq |-> n,
                                             meetingTypeId |-> event.meetingTypeId])
                             ELSE @]
    /\ UNCHANGED <<now, holds, bookings, hreq, creq, bus>>
    /\ UNCHANGED ndaVars
    /\ UNCHANGED <<env, inbox, deadLetter, countsFrom, stream>>
    /\ UNCHANGED slotVars
    /\ UNCHANGED rateVars
    /\ UNCHANGED pageVars

\* stream.onAbort: the client disconnects, messages.stop()
RealtimeAbort(c) ==
    /\ clients[c].pc = "streaming"
    /\ clients' = [clients EXCEPT ![c].pc = "closed", ![c].cursor = 0]
    /\ UNCHANGED <<now, holds, bookings, hreq, creq, bus>>
    /\ UNCHANGED ndaVars
    /\ UNCHANGED <<env, inbox, deadLetter, countsFrom, stream>>
    /\ UNCHANGED slotVars
    /\ UNCHANGED rateVars
    /\ UNCHANGED pageVars

\* --------------------------------------------------------- availability
\* Instants are counted in slot instants from the start of date 0 in the host's zone;
\* the server's zone and the host's are taken to be the same, and date 0 is a Sunday.
Dates == 0..MaxDay
startOfDay(d) == d * DayLen
\* endOf('day') is the last millisecond of the date: an instant t of the model is
\* at or before it when t < startOfDay(d + 1)
atOrBeforeEndOfDay(t, d) == t < startOfDay(d + 1)
weekday(d) == d % 7

\* luxon Interval.overlaps: this.e > other.s && this.s < other.e
IntervalOverlaps(s1, e1, s2, e2) == e1 > s2 /\ s1 < e2

\* the rows the two selects of getExistingSlots return
getExistingSlots(mt, startDate, endDate) ==
    {<<holds[h].slotStart, holds[h].slotEnd>> :
        h \in {x \in HoldIds : /\ holds[x].mt = mt
                               /\ holds[x].status = "active"
                               /\ holds[x].slotStart >= startOfDay(startDate)
                               /\ atOrBeforeEndOfDay(holds[x].slotEnd, endDate)}}
    \cup
    {<<bookings[b].slotStart, bookings[b].slotEnd>> :
        b \in {x \in BookingIds : /\ bookings[x].mt = mt
                                  /\ bookings[x].status = "confirmed"
                                  /\ bookings[x].slotStart >= startOfDay(startDate)
                                  /\ atOrBeforeEndOfDay(bookings[x].slotEnd, endDate)}}

\* the blackout rows of the window (every date of the model lies in one year)
getBlackoutDates(startDate, endDate) ==
    SelectSeq(blackoutDates, LAMBDA b : startDate <= b.blackoutDate /\ b.blackoutDate <= endDate)

hasConflict(bufferStart, bufferEnd, existingSlots) ==
    \E existing \in existingSlots :
        IntervalOverlaps(bufferStart, bufferEnd, existing[1], existing[2])

\* a blackout row without start_time covers its date; one with start_time covers
\* [start_time, end_time) of its date.  Interval.fromDateTimes gives an invalid
\* interval when the end is before the start, and overlaps is false on it; an interval
\* whose end equals its start is valid.
hasPartialBlackout(slotStart, slotEnd, blackouts, date) ==
    \E i \in 1..Len(blackouts) :
        /\ blackouts[i].blackoutDate = date
        /\ ~ blackouts[i].allDay
        /\ ~ (blackouts[i].endTime < blackouts[i].startTime)
        /\ IntervalOverlaps(slotStart, slotEnd,
                            startOfDay(date) + blackouts[i].startTime,
                            startOfDay(date) + blackouts[i].endTime)

\* the loop of generateSlotsForRule from slotStart on
RECURSIVE slotsFrom(_, _, _, _, _, _)
slotsFrom(slotStart, ruleEnd, date, blackouts, existingSlots, minBookingTime) ==
    LET slotEnd == slotStart + meetingType.durationMinutes
        bufferStart == slotStart - meetingType.bufferBeforeMinutes
        bufferEnd == slotEnd + meetingType.bufferAfterMinutes
        rest == slotsFrom(slotEnd, ruleEnd, date, blackouts, existingSlots, minBookingTime)
    IN IF slotEnd > ruleEnd THEN <<>>
       ELSE IF slotStart > minBookingTime
       THEN <<[start |-> slotStart, end |-> slotEnd,
               available |-> /\ ~ hasPartialBlackout(slotStart, slotEnd, blackouts, date)
                             /\ ~ hasConflict(bufferStart, bufferEnd, existingSlots)]>>
            \o rest
       ELSE rest

generateSlotsForRule(date, rule, blackouts, existingSlots, minBookingTime) ==
    slotsFrom(startOfDay(date) + rule.startTime, startOfDay(date) + rule.endTime,
              date, blackouts, existingSlots, minBookingTime)

\* the rules of the date, in the order the select returned them
\* (effectiveUntil is <<>> when the column is null, else <<date>>)
dayRules(rules, date) ==
    SelectSeq(rules, LAMBDA rule : /\ ~ (date < rule.effectiveFrom)
                                   /\ ~ (rule.effectiveUntil # <<>>
                                         /\ date > rule.effectiveUntil[1])
                                   /\ rule.dayOfWeek = weekday(date))

isFullDayBlackout(blackouts, date) ==
    \E i \in 1..Len(blackouts) : blackouts[i].blackoutDate = date /\ blackouts[i].allDay

\* the slots of the rules rs of one date, rule after rule
RECURSIVE slotsOfRules(_, _, _, _, _)
slotsOfRules(rs, date, blackouts, existingSlots, minBookingTime) ==
    IF rs = <<>> THEN <<>>
    ELSE generateSlotsForRule(date, Head(rs), blackouts, existingSlots, minBookingTime)
         \o slotsOfRules(Tail(rs), date, blackouts, existingSlots, minBookingTime)

\* the loop of generateSlots from currentDate on
RECURSIVE slotsFromDate(_, _, _, _, _, _)
slotsFromDate(currentDate, lastDate, rules, blackouts, existingSlots, minBookingTime) ==
    IF currentDate > lastDate THEN <<>>
    ELSE (IF isFullDayBlackout(blackouts, currentDate) THEN <<>>
          ELSE slotsOfRules(dayRules(rules, currentDate), currentDate, blackouts,
                            existingSlots, minBookingTime))
         \o slotsFromDate(currentDate + 1, lastDate, rules, blackouts, existingSlots,
                          minBookingTime)

generateSlots(rules, blackouts, existingSlots, startDate, endDate, minBookingTime) ==
    slotsFromDate(startDate, endDate, rules, blackouts, existingSlots, minBookingTime)

\* GET /:slug/slots: getAvailableSlots reads the rules, the blackouts and the occupancy
\* and answers with the generated slots.  minBookingTime is the time of the call plus
\* two hours, in slot instants.
GetSlots(mt, startDate, endDate, minBookingTime) ==
    /\ startDate <= endDate
    /\ sreq' = [pc |-> "done", mt |-> mt, startDate |-> startDate, endDate |-> endDate,
                minBookingTime |-> minBookingTime,
                slots |-> generateSlots(availabilityRules,
                                        getBlackoutDates(startDate, endDate),
                                        getExistingSlots(mt, startDate, endDate),
                                        startDate, endDate, minBookingTime)]
    /\ UNCHANGED <<now, holds, bookings, hreq, creq, bus>>
    /\ UNCHANGED ndaVars
    /\ UNCHANGED <<env, inbox, deadLetter, countsFrom>>
    /\ UNCHANGED rtVars
    /\ UNCHANGED <<availabilityRules, blackoutDates, meetingType>>
    /\ UNCHANGED rateVars
    /\ UNCHANGED pageVars

\* -------------------------------------------------------- rate limiter
\* holdRateLimit: one minute, five requests, keyed by the client's IP as the
\* X-Forwarded-For or X-Real-IP header gives it
windowMs == 60000
maxRequests == 5

ceilSeconds(ms) == (ms + 999) \div 1000

\* the record the middleware works on: the stored one unless it is missing or its
\* window has passed
currentRecord(key) ==
    IF key \notin DOMAIN store \/ store[key].resetAt < now
    THEN [count |-> 0, resetAt |-> now + windowMs]
    ELSE store[key]

\* the middleware before POST /:slug/hold: it counts the request and either answers
\* 429 with Retry-After or calls next(), which runs the validator and the handler
rateLimit_noLimit(ip) ==
    LET record == [currentRecord(ip) EXCEPT !.count = @ + 1]
    IN /\ record.count <= maxRequests + MaxOver
       /\ store' = [k \in DOMAIN store \cup {ip} |-> IF k = ip THEN record ELSE store[k]]
       /\ rres' = [ip |-> ip, status |-> 0, retryAfter |-> -1]
       /\ reached' = [reached EXCEPT ![ip] = Append(@, now)]
       /\ UNCHANGED <<now, holds, bookings, hreq, creq, bus>>
       /\ UNCHANGED ndaVars
       /\ UNCHANGED <<env, inbox, deadLetter, countsFrom>>
       /\ UNCHANGED rtVars
       /\ UNCHANGED slotVars
       /\ UNCHANGED pageVars
rateLimit(ip) ==
    LET record == [currentRecord(ip) EXCEPT !.count = @ + 1]
    IN /\ record.count <= maxRequests + MaxOver
       /\ store' = [k \in DOMAIN store \cup {ip} |-> IF k = ip THEN record ELSE store[k]]
       /\ IF record.count > maxRequests
          THEN /\ rres' = [ip |-> ip, status |-> 429,
                           retryAfter |-> ceilSeconds(record.resetAt - now)]
               /\ UNCHANGED reached
          ELSE /\ rres' = [ip |-> ip, status |-> 0, retryAfter |-> -1]
               /\ reached' = [reached EXCEPT ![ip] = Append(@, now)]
       /\ UNCHANGED <<now, holds, bookings, hreq, creq, bus>>
       /\ UNCHANGED ndaVars
       /\ UNCHANGED <<env, inbox, deadLetter, countsFrom>>
       /\ UNCHANGED rtVars
       /\ UNCHANGED slotVars
       /\ UNCHANGED pageVars

\* the periodic clean-up deletes the records whose window has passed
storeCleanup ==
    /\ \E k \in DOMAIN store : store[k].resetAt < now
    /\ store' = [k \in {x \in DOMAIN store : ~ (store[x].resetAt < now)} |-> store[k]]
    /\ UNCHANGED <<now, holds, bookings, hreq, creq, bus>>
    /\ UNCHANGED ndaVars
    /\ UNCHANGED <<env, inbox, deadLetter, countsFrom>>
    /\ UNCHANGED rtVars
    /\ UNCHANGED slotVars
    /\ UNCHANGED <<reached, rres>>
    /\ UNCHANGED pageVars

\* a window's length of time passes
Elapse ==
    /\ now < MaxElapse * windowMs
    /\ now' = now + windowMs
    /\ UNCHANGED <<holds, bookings, hreq, creq, bus>>
    /\ UNCHANGED ndaVars
    /\ UNCHANGED edgeVars

\* ------------------------------------------------- public booking page
\* the slots the slot picker of a page offers
PageSlots == {<<0, SlotLen>>, <<1, 1 + SlotLen>>}

\* useEffect(..., [connect]): handleSlotHeld is made anew when selectedSlot or holdId
\* changes, and connect with it; the effect closes the EventSource and opens another,
\* whose consumer starts at the first message of the stream
reconnected(old, new) ==
    IF old.selectedSlot # new.selectedSlot \/ old.holdId # new.holdId
    THEN [new EXCEPT !.seen = {}]
    ELSE new

\* the slot.held events of the page's meeting type that its connection has yet to
\* deliver
heldEvents(p) ==
    {e \in BagToSet(bus) : /\ e.type = "slot.held"
                           /\ holds[e.id].mt = "mt1"
                           /\ e \notin pages[p].seen}

\* handleSlotHeld: the slot.held frame e reaches page p.  Its slot is added to
\* blockedSlots; if it is the selected slot and holdId is not set, the selection is
\* cleared and the 'Slot taken' toast is shown.
handleSlotHeld(p, e) ==
    /\ e \in heldEvents(p)
    /\ LET slotStart == holds[e.id].slotStart
           page == pages[p]
           blocked == [page EXCEPT !.blockedSlots = @ \cup {slotStart},
                                   !.seen = @ \cup {e}]
           new == IF /\ page.selectedSlot # <<>>
                     /\ page.selectedSlot[1][1] = slotStart
                     /\ page.holdId = 0
                  THEN [blocked EXCEPT !.selectedSlot = <<>>,
                                       !.notices = @ \cup {"Slot taken"}]
                  ELSE blocked
       IN pages' = [pages EXCEPT ![p] = reconnected(page, new)]
    /\ UNCHANGED <<now, holds, bookings, hreq, creq, bus>>
    /\ UNCHANGED ndaVars
    /\ UNCHANGED <<env, inbox, deadLetter, countsFrom>>
    /\ UNCHANGED rtVars
    /\ UNCHANGED slotVars
    /\ UNCHANGED rateVars

\* handleSelectSlot: the slot picker is shown in the select-slot step; a blocked slot
\* is answered with the 'Slot unavailable' toast, another becomes the selection
handleSelectSlot(p, slot) ==
    /\ pages[p].step = "select-slot"
    /\ LET page == pages[p]
           new == IF slot[1] \in page.blockedSlots
                  THEN [page EXCEPT !.notices = @ \cup {"Slot unavailable"}]
                  ELSE [page EXCEPT !.selectedSlot = <<slot>>]
       IN pages' = [pages EXCEPT ![p] = reconnected(page, new)]
    /\ UNCHANGED <<now, holds, bookings, hreq, creq, bus>>
    /\ UNCHANGED ndaVars
    /\ UNCHANGED <<env, inbox, deadLetter, countsFrom>>
    /\ UNCHANGED rtVars
    /\ UNCHANGED slotVars
    /\ UNCHANGED rateVars

\* handleProceedToDetails up to its await: the button is shown while a slot is
\* selected and is disabled while isSubmitting; publicBooking.createHold sends the
\* selected slot.  A page sends one create-hold request.
handleProceedToDetails(p) ==
    /\ pages[p].step = "select-slot"
    /\ pages[p].selectedSlot # <<>>
    /\ ~ pages[p].isSubmitting
    /\ pages[p].request = <<>>
    /\ pages' = [pages EXCEPT ![p].isSubmitting = TRUE,
                              ![p].request = <<pages[p].selectedSlot[1]>>]
    /\ UNCHANGED <<now, holds, bookings, hreq, creq, bus>>
    /\ UNCHANGED ndaVars
    /\ UNCHANGED <<env, inbox, deadLetter, countsFrom>>
    /\ UNCHANGED rtVars
    /\ UNCHANGED slotVars
    /\ UNCHANGED rateVars

\* the request of page p reaches POST /:slug/hold
PageHoldBegin(p) ==
    /\ pages[p].request # <<>>
    /\ HoldBegin(p, "mt1", pages[p].request[1], p)

\* handleProceedToDetails after its await: the answer of the route has arrived.  201
\* sets holdId and the enter-details step; another status is an ApiError, shown as
\* 'Slot unavailable', and clears the selection.
ProceedToDetailsSettled(p) ==
    /\ pages[p].isSubmitting
    /\ hreq[p].pc = "done"
    /\ LET page == pages[p]
           new == IF hreq[p].code = 201
                  THEN [page EXCEPT !.holdId = hreq[p].holdId, !.step = "enter-details",
                                    !.isSubmitting = FALSE]
                  ELSE [page EXCEPT !.notices = @ \cup {"Slot unavailable"},
                                    !.selectedSlot = <<>>, !.isSubmitting = FALSE]
       IN pages' = [pages EXCEPT ![p] = reconnected(page, new)]
    /\ UNCHANGED <<now, holds, bookings, hreq, creq, bus>>
    /\ UNCHANGED ndaVars
    /\ UNCHANGED <<env, inbox, deadLetter, countsFrom>>
    /\ UNCHANGED rtVars
    /\ UNCHANGED slotVars
    /\ UNCHANGED rateVars

\* ------------------------------------------------------ specifications
\* the steps of the create-hold requests HR, whose holds name meeting types of MT
\* and slots of SL
StepHold(HR, MT, SL) ==
    \/ \E r \in HR, mt \in MT, slot \in SL, k \in Keys : HoldBegin(r, mt, slot, k)
    \/ \E r \in HR : HoldLock(r)
    \/ \E r \in HR : HoldCheckHolds(r)
    \/ \E r \in HR : HoldCheckBookings(r)
    \/ \E r \in HR : HoldInsert(r)
    \/ \E r \in HR : HoldPublish(r)

\* time passes, a guest releases a hold, the sweeper runs
StepRelease ==
    \/ Tick
    \/ \E h \in HoldIds : ReleaseHoldRoute(h)
    \/ expireHolds

\* the steps of the confirm requests CR
StepConfirm(CR) ==
    \/ \E r \in CR, h \in 1..MaxHolds, k \in Keys : ConfirmBegin(r, h, k)
    \/ \E r \in CR : ConfirmLoadHold(r)
    \/ \E r \in CR : ConfirmExpire(r)
    \/ \E r \in CR : ConfirmInsert(r)
    \/ \E r \in CR : ConfirmRespond(r)

\* the host cancels, completes or marks as no-show
StepBooking ==
    \/ \E b \in BookingIds : cancelBooking(b)
    \/ \E b \in BookingIds : markAsCompleted(b)
    \/ \E b \in BookingIds : markAsNoShow(b)

Step(HR, CR, MT, SL) ==
    \/ StepHold(HR, MT, SL)
    \/ StepRelease
    \/ StepConfirm(CR)
    \/ StepBooking

\* two concurrent create-hold requests and one confirm request
Next == Step(HoldReqs, {1}, MeetingTypes, Slots)
Spec == Init /\ [][Next]_vars

\* one create-hold request and two concurrent confirm requests
NextConfirm == Step({1}, ConfReqs, MeetingTypes, Slots)
SpecConfirm == Init /\ [][NextConfirm]_vars

\* two create-hold and two confirm requests on one slot of one meeting type
NextBooking == Step(HoldReqs, ConfReqs, {"mt1"}, {<<0, SlotLen>>})
SpecBooking == Init /\ [][NextBooking]_vars

\* the NDA steps: documents are created, the events EV are delivered in the web
\* requests WR, signed by the provider or carrying a signature header of SG, the bus
\* redelivers
StepNda(WR, EV, SG) ==
    \/ \E r \in WR, d \in 1..MaxDocs, ev \in EV :
           \E sig \in SG \cup {createHmac(env.secret, d, ev)} : WebhookBegin(r, d, ev, sig)
    \/ \E h \in HoldIds : createNda(h)
    \/ \E r \in WR : WebhookInsert(r)
    \/ \E r \in WR : WebhookUpdate(r)
    \/ \E r \in WR : WebhookPublish(r)
    \/ \E r \in WR : WebhookComplete(r)
    \/ \E r \in WR : WebhookRaise(r)
    \/ \E e \in BagToSet(bus) : NdaConsume(e)

\* a hold of the NDA-requiring meeting type has been taken by create-hold request 1
InitHeld(E) ==
    /\ now = 0
    /\ holds = <<[mt |-> "mt1", slotStart |-> 0, slotEnd |-> SlotLen, status |-> "active",
                  expiresAt |-> HOLD_DURATION_MS, key |-> 1]>>
    /\ bookings = <<>>
    /\ hreq = [r \in HoldReqs |->
                  IF r = 1 THEN [IdleHold EXCEPT !.pc = "done", !.slotEnd = SlotLen, !.key = 1,
                                                 !.code = 201, !.holdId = 1,
                                                 !.atCall = "free"]
                  ELSE IdleHold]
    /\ creq = [r \in ConfReqs |-> IdleConf]
    /\ bus = SetToBag({SlotHeld(1)})
    /\ requiresNda = [mt \in MeetingTypes |-> mt = "mt1"]
    /\ documents = <<>>
    /\ webhooks = <<>>
    /\ wreq = [r \in WebReqs |-> IdleWeb]
    /\ env \in E
    /\ EdgeIdle({})

InitWebhook == InitHeld({DefaultEnv})

\* that hold, its documents, two webhook deliveries that sign them or expire them,
\* and one confirm request
NextNda ==
    \/ StepRelease
    \/ StepConfirm({1})
    \/ \E r \in {1} : ConfirmCheckNda(r)
    \/ StepNda(WebReqs, {"document_completed", "document_expired"}, {})
SpecNda == InitWebhook /\ [][NextNda]_vars

\* that hold, its documents signed through one webhook delivery, and two concurrent
\* confirm requests
NextRollback ==
    \/ StepRelease
    \/ StepConfirm(ConfReqs)
    \/ \E r \in ConfReqs : ConfirmCheckNda(r)
    \/ StepBooking
    \/ StepNda({1}, {"document_completed"}, {})
SpecRollback == InitWebhook /\ [][NextRollback]_vars

\* the documents of that hold, two concurrent webhook deliveries and the bus consumer
NextWebhook == StepNda(WebReqs, WebhookEvents, {})
SpecWebhook == InitWebhook /\ [][NextWebhook]_vars

\* that hold under every configuration, its documents, and two deliveries of
\* document_completed with any signature header
NextSignature == StepNda(WebReqs, {"document_completed"}, Signatures)
SpecSignature == InitHeld([nodeEnv : NodeEnvs, secret : Secrets]) /\ [][NextSignature]_vars

\* two messages of the booking-processor consumer, whose handler may fail at every
\* delivery, under both readings of info.redeliveryCount
InitDlq ==
    /\ InitCore
    /\ inbox \in [Msgs -> {[subject |-> sj, numDelivered |-> 0, status |-> "pending",
                             naks |-> 0, delay |-> 0, dlq |-> FALSE] : sj \in filterSubjects}]
    /\ deadLetter = <<>>
    /\ countsFrom \in {0, 1}
    /\ EdgeIdle({"bus"})

NextDlq ==
    \/ \E m \in Msgs : BusDeliver(m)
    \/ \E m \in Msgs : HandlerOk(m)
    \/ \E m \in Msgs : HandlerFail(m)
SpecDlq == InitDlq /\ [][NextDlq]_vars

\* events are published while a client connects, reads and disconnects
InitRealtime == InitCore /\ IdleRealtime /\ EdgeIdle({"realtime"})

NextRealtime ==
    \/ \E t \in BookingEventTypes \cup NdaEventTypes, mt \in MeetingTypes : StreamPublish(t, mt)
    \/ \E c \in Clients, mt \in MeetingTypes : RealtimeConnect(c, mt)
    \/ \E c \in Clients : RealtimeForward(c)
    \/ \E c \in Clients : RealtimeAbort(c)
SpecRealtime == InitRealtime /\ [][NextRealtime]_vars

\* the gateway's handler keeps running: a message that waits is read
SpecRealtimeLive ==
    /\ SpecRealtime
    /\ \A c \in Clients : WF_vars(RealtimeForward(c))

\* what the tables may hold when get-slots is called: one rule with an effective
\* window or up to two rules without, each on a date's weekday; no blackout, one of a whole date, one of a date's first instant,
\* or one whose start is at or after its end; slots of one or two instants; buffers
\* of no or one instant; and no occupancy or one row that starts at any
\* instant of the dates
RuleTimes == {<<0, 1>>, <<1, 2>>, <<0, 2>>}
Rules == {[dayOfWeek |-> weekday(d), startTime |-> t[1], endTime |-> t[2],
           effectiveFrom |-> 0, effectiveUntil |-> <<>>] : d \in Dates, t \in RuleTimes}
\* the rules with an effective window that begins or ends at one of the dates
DatedRules ==
    {[a EXCEPT !.effectiveFrom = f] : a \in Rules, f \in Dates}
    \cup {[a EXCEPT !.effectiveUntil = <<u>>] : a \in Rules, u \in Dates}
RuleLists == {<<>>} \cup {<<a>> : a \in DatedRules} \cup {<<a, b>> : a, b \in Rules}
BlackoutLists ==
    {<<>>,
     <<[blackoutDate |-> 0, allDay |-> TRUE, startTime |-> 0, endTime |-> 0]>>,
     <<[blackoutDate |-> MaxDay, allDay |-> FALSE, startTime |-> 0, endTime |-> 1]>>,
     <<[blackoutDate |-> 0, allDay |-> FALSE, startTime |-> 1, endTime |-> 1]>>,
     <<[blackoutDate |-> 0, allDay |-> FALSE, startTime |-> 1, endTime |-> 0]>>}
Buffers == {0, 1}
HoldRow(s, st, mt) ==
    [mt |-> mt, slotStart |-> s, slotEnd |-> s + 1, status |-> st,
     expiresAt |-> HOLD_DURATION_MS, key |-> 1]
BookingRow(s, st, mt) ==
    [mt |-> mt, slotStart |-> s, slotEnd |-> s + 1, status |-> st, key |-> 1, fromHold |-> 1]
Instants == 0..(startOfDay(MaxDay + 1) - 1)
Occupancies ==
    {<<<<>>, <<>>>>}
    \cup {<<<<HoldRow(s, "active", "mt1")>>, <<>>>> : s \in Instants}
    \cup {<<<<HoldRow(s, "released", "mt1")>>, <<>>>> : s \in Instants}
    \cup {<<<<HoldRow(s, "active", "mt2")>>, <<>>>> : s \in Instants}
    \cup {<<<<HoldRow(s, "converted", "mt1")>>, <<BookingRow(s, "confirmed", "mt1")>>>> :
              s \in Instants}
    \cup {<<<<HoldRow(s, "converted", "mt1")>>, <<BookingRow(s, "canceled", "mt1")>>>> :
              s \in Instants}

InitSlots ==
    /\ now = 0
    /\ \E o \in Occupancies : holds = o[1] /\ bookings = o[2]
    /\ hreq = [r \in HoldReqs |-> IdleHold]
    /\ creq = [r \in ConfReqs |-> IdleConf]
    /\ bus = EmptyBag
    /\ requiresNda = [mt \in MeetingTypes |-> FALSE]
    /\ documents = <<>>
    /\ webhooks = <<>>
    /\ wreq = [r \in WebReqs |-> IdleWeb]
    /\ env = DefaultEnv
    /\ availabilityRules \in RuleLists
    /\ blackoutDates \in BlackoutLists
    /\ meetingType \in [durationMinutes : {1, 2}, bufferBeforeMinutes : Buffers,
                        bufferAfterMinutes : Buffers]
    /\ sreq = IdleSlotReq
    /\ EdgeIdle({"slots"})

\* get-slots is called for mt1 with any window of the dates, at a time whose lead
\* leaves out no slot or the slots up to instant 0
NextSlots ==
    \E startDate \in Dates, endDate \in Dates, minBookingTime \in {-1, 0} :
        GetSlots("mt1", startDate, endDate, minBookingTime)
SpecSlots == InitSlots /\ [][NextSlots]_vars

\* create-hold requests of two client IPs pass the rate limiter while time passes
InitRate == InitCore /\ IdleRate /\ EdgeIdle({"rate"})
NextRate ==
    \/ \E ip \in Ips : rateLimit(ip)
    \/ storeCleanup
    \/ Elapse
SpecRate == InitRate /\ [][NextRate]_vars

\* two booking pages are open: slots are selected, create-hold requests are sent and
\* served, slot.held frames and answers arrive in any order
InitPage == InitCore /\ IdlePages /\ EdgeIdle({"page"})
NextPage ==
    \/ \E p \in Pages, slot \in PageSlots : handleSelectSlot(p, slot)
    \/ \E p \in Pages : handleProceedToDetails(p)
    \/ \E p \in Pages : PageHoldBegin(p)
    \/ \E r \in Pages : HoldLock(r)
    \/ \E r \in Pages : HoldCheckHolds(r)
    \/ \E r \in Pages : HoldCheckBookings(r)
    \/ \E r \in Pages : HoldInsert(r)
    \/ \E r \in Pages : HoldPublish(r)
    \/ \E p \in Pages, e \in BagToSet(bus) : handleSlotHeld(p, e)
    \/ \E p \in Pages : ProceedToDetailsSettled(p)
SpecPage == InitPage /\ [][NextPage]_vars

\* two create-hold requests on two overlapping slots of one meeting type and one
\* confirm request, while the sweeper keeps running: setInterval calls expireHolds
\* every 30 seconds and a failed run is caught and followed by the next one
NextSweep == Step(HoldReqs, {1}, {"mt1"}, {<<0, SlotLen>>, <<1, 1 + SlotLen>>})
SpecSweep == Init /\ [][NextSweep]_vars /\ WF_vars(expireHolds)

\* ---------------------------------------------------------------- claims
\* the half-open intervals [a1, a2) and [b1, b2) share an instant / share none
Meets(a1, a2, b1, b2) == a1 < b2 /\ b1 < a2
Disjoint(a1, a2, b1, b2) == a2 <= b1 \/ b2 <= a1

doneHold(r) == hreq[r].pc = "done"
doneConf(r) == creq[r].pc = "done"

\* the hold rows of meeting type mt that meet [s, e)
rowsOn(mt, s, e) ==
    {h \in HoldIds : holds[h].mt = mt /\ Meets(holds[h].slotStart, holds[h].slotEnd, s, e)}

\* C1: in every reachable state two distinct active holds of one meeting type have
\* disjoint intervals [slot_start, slot_end)
C1_ActiveHoldsDisjoint ==
    \A h1, h2 \in HoldIds :
        (h1 # h2 /\ holds[h1].status = "active" /\ holds[h2].status = "active"
         /\ holds[h1].mt = holds[h2].mt)
        => Disjoint(holds[h1].slotStart, holds[h1].slotEnd,
                    holds[h2].slotStart, holds[h2].slotEnd)

\* a create-hold that raced an overlapping one was refused by the exclusion
\* constraint while the other hold is active
C1_Witness ==
    \E r \in HoldReqs, h \in HoldIds :
        /\ hreq[r].error = "no_overlapping_active_holds"
        /\ holds[h].status = "active"
        /\ h \in rowsOn(hreq[r].mt, hreq[r].slotStart, hreq[r].slotEnd)

\* C2: in every reachable state two distinct confirmed bookings of one meeting type
\* have disjoint intervals [slot_start, slot_end)
C2_ConfirmedBookingsDisjoint ==
    \A b1, b2 \in BookingIds :
        (b1 # b2 /\ bookings[b1].status = "confirmed" /\ bookings[b2].status = "confirmed"
         /\ bookings[b1].mt = bookings[b2].mt)
        => Disjoint(bookings[b1].slotStart, bookings[b1].slotEnd,
                    bookings[b2].slotStart, bookings[b2].slotEnd)

\* a confirm of one hold was refused as 'Slot already booked' while the booking made
\* from another hold is confirmed
C2_Witness ==
    \E r \in ConfReqs, b \in BookingIds :
        /\ doneConf(r) /\ creq[r].error = "Slot already booked"
        /\ bookings[b].status = "confirmed"
        /\ bookings[b].fromHold # creq[r].holdId

\* requests r1 and r2 are the only ones to have used their keys, and every hold row
\* of their meeting type that meets one of their slots is theirs and still active
OnlyTheirs(r1, r2) ==
    /\ \A q \in HoldReqs \ {r1, r2} :
           hreq[q].pc = "idle" \/ hreq[q].key \notin {hreq[r1].key, hreq[r2].key}
    /\ \A h \in rowsOn(hreq[r1].mt, hreq[r1].slotStart, hreq[r1].slotEnd)
               \cup rowsOn(hreq[r2].mt, hreq[r2].slotStart, hreq[r2].slotEnd) :
           holds[h].status = "active" /\ holds[h].key \in {hreq[r1].key, hreq[r2].key}

SameSlotPair(r1, r2) ==
    /\ r1 # r2 /\ doneHold(r1) /\ doneHold(r2)
    /\ hreq[r1].mt = hreq[r2].mt
    /\ hreq[r1].slotStart = hreq[r2].slotStart /\ hreq[r1].slotEnd = hreq[r2].slotEnd
    /\ hreq[r1].key # hreq[r2].key
    /\ OnlyTheirs(r1, r2)

\* C3: two create-hold requests with distinct keys for the identical free slot: one is
\* answered 201 and the other 409, one hold row results, it is active, and one
\* slot.held event is published
C3_SameSlotOneWinner ==
    \A r1, r2 \in HoldReqs :
        SameSlotPair(r1, r2)
        => LET rows == rowsOn(hreq[r1].mt, hreq[r1].slotStart, hreq[r1].slotEnd)
           IN /\ {hreq[r1].code, hreq[r2].code} = {201, 409}
              /\ Cardinality(rows) = 1
              /\ \A h \in rows : holds[h].status = "active" /\ CopiesIn(SlotHeld(h), bus) = 1

\* such a pair, the second of which began while the first was in flight
C3_Witness ==
    \E r1, r2 \in HoldReqs :
        /\ SameSlotPair(r1, r2)
        /\ r1 \in hreq[r2].conc
        /\ hreq[r1].code = 201 /\ hreq[r2].code = 409

OverlappingPair(r1, r2) ==
    /\ r1 # r2 /\ doneHold(r1) /\ doneHold(r2)
    /\ hreq[r1].mt = hreq[r2].mt
    /\ hreq[r1].slotStart # hreq[r2].slotStart
    /\ Meets(hreq[r1].slotStart, hreq[r1].slotEnd, hreq[r2].slotStart, hreq[r2].slotEnd)
    /\ hreq[r1].key # hreq[r2].key
    /\ OnlyTheirs(r1, r2)

\* C4: two create-hold requests of one meeting type with different starts and
\* overlapping intervals: one succeeds, the other is answered with a conflict (409,
\* no unhandled error), and one hold row is created
C4_OverlapOneWinner ==
    \A r1, r2 \in HoldReqs :
        OverlappingPair(r1, r2)
        => /\ {hreq[r1].code, hreq[r2].code} = {201, 409}
           /\ Cardinality({h \in HoldIds : holds[h].key \in {hreq[r1].key, hreq[r2].key}}) = 1

\* such a pair whose loser was stopped by the exclusion constraint at its insert
C4_Witness ==
    \E r1, r2 \in HoldReqs :
        /\ OverlappingPair(r1, r2)
        /\ hreq[r1].code = 201
        /\ hreq[r2].code = 409 /\ hreq[r2].error = "no_overlapping_active_holds"

\* C5: a create-hold carrying the key of a hold that is still active (no other hold
\* row is in its way) is answered 201 with the id of that hold
C5_RetryReturnsSameHold ==
    \A r \in HoldReqs, h \in HoldIds :
        (/\ doneHold(r)
         /\ holds[h].key = hreq[r].key /\ holds[h].status = "active"
         /\ rowsOn(hreq[r].mt, hreq[r].slotStart, hreq[r].slotEnd) \subseteq {h})
        => (hreq[r].code = 201 /\ hreq[r].holdId = h)

\* C6: at most one slot.held event is published for the hold of one idempotency key
C6_OneSlotHeldPerKey ==
    \A h \in HoldIds : CopiesIn(SlotHeld(h), bus) <= 1

\* C7: a hold that is converted, released or expired keeps its status
C7_TerminalIsFinal ==
    [][\A h \in HoldIds : holds[h].status # "active" => holds'[h].status = holds[h].status]_vars

reasonOf(status) ==
    IF status = "released" THEN "canceled" ELSE status

\* C8: once no confirm request is in flight, every hold that has left active has its
\* slot.released event with the matching reason on the bus
C8_TerminalPublished ==
    inFlightConfs = {}
    => \A h \in HoldIds :
           holds[h].status # "active"
           => CopiesIn(SlotReleased(h, reasonOf(holds[h].status)), bus) >= 1

\* C9: no two bookings share an idempotency key, and a confirm_booking (on a hold the
\* route has found) that begins after a confirm_booking with the same key has returned
\* success returns success with the same booking
C9_ConfirmIdempotent ==
    /\ \A b1, b2 \in BookingIds : bookings[b1].key = bookings[b2].key => b1 = b2
    /\ \A r1, r2 \in ConfReqs :
           (/\ r1 < r2 /\ doneConf(r1) /\ doneConf(r2)
            /\ r1 \notin creq[r2].conc
            /\ creq[r2].atCall # "missing"
            /\ creq[r1].key = creq[r2].key
            /\ creq[r1].code = 200)
           => (creq[r2].code = 200 /\ creq[r2].bookingId = creq[r1].bookingId)

\* a second confirm with the key of a finished one was answered from the stored booking
C9_Witness ==
    \E r1, r2 \in ConfReqs :
        /\ r1 < r2 /\ doneConf(r1) /\ doneConf(r2)
        /\ r1 \notin creq[r2].conc
        /\ creq[r1].key = creq[r2].key
        /\ creq[r1].code = 200 /\ ~ creq[r1].replay
        /\ creq[r2].code = 200 /\ creq[r2].replay

BadHold == {"missing", "converted", "released", "expired", "past"}

\* C10 as stated: a confirm called on a hold that is missing, not active or past its
\* expires_at returns a failure and creates no booking
C10_FailsOnBadHold ==
    \A r \in ConfReqs :
        (doneConf(r) /\ creq[r].atCall \in BadHold)
        => (creq[r].code \in {400, 404} /\ creq[r].bookingId = 0)

\* C10 amended: a confirm whose key matches no existing booking and whose hold is
\* missing, not active or past its expires_at returns a failure and creates no
\* booking; a confirm answered 'Hold has expired' leaves the hold expired
C10_FailsOnBadHoldUnlessReplay ==
    /\ [](\A r \in ConfReqs :
            (doneConf(r) /\ ~ creq[r].replay /\ creq[r].atCall \in BadHold)
            => (creq[r].code \in {400, 404} /\ creq[r].bookingId = 0))
    /\ [][\A r \in ConfReqs :
            (creq[r].pc # "done" /\ creq'[r].pc = "done" /\ creq'[r].code # 200)
            => /\ bookings' = bookings
               /\ creq'[r].error = "Hold has expired"
                  => holds'[creq'[r].holdId].status = "expired"]_vars

\* a confirm on a hold past its expires_at has failed and the hold is expired
C10_Witness ==
    \E r \in ConfReqs :
        /\ doneConf(r) /\ ~ creq[r].replay
        /\ creq[r].atCall = "past"
        /\ creq[r].code = 400 /\ creq[r].error = "Hold has expired"
        /\ holds[creq[r].holdId].status = "expired"

\* the documents of hold h that are signed
signedFor(h) == {d \in DocIds : documents[d].holdId = h /\ documents[d].status = "signed"}

\* C11: every booking of an NDA-requiring meeting type has a signed Document for its
\* hold in the state in which it is created
C11_BookingHadSignedNda ==
    [][\A r \in ConfReqs :
          (/\ creq[r].pc = "insert" /\ creq'[r].pc = "respond"
           /\ requiresNda[holds[creq[r].holdId].mt])
          => signedFor(creq[r].holdId) # {}]_vars

\* the confirm request r is about to insert a booking with an unused key while a
\* confirmed booking of the hold's meeting type meets the hold's slot
InsertMeetsBooking(r) ==
    /\ creq[r].pc = "insert"
    /\ \A b \in BookingIds : bookings[b].key # creq[r].key
    /\ \E b \in BookingIds :
           /\ bookings[b].status = "confirmed"
           /\ bookings[b].mt = holds[creq[r].holdId].mt
           /\ Meets(bookings[b].slotStart, bookings[b].slotEnd,
                    holds[creq[r].holdId].slotStart, holds[creq[r].holdId].slotEnd)

\* C12: a confirm whose booking insert violates the exclusion constraint is answered
\* 'Slot already booked' and leaves bookings, holds and documents as they were
C12_ExclusionRollsBack ==
    [][\A r \in ConfReqs :
          (InsertMeetsBooking(r) /\ creq'[r].pc # "insert")
          => /\ creq'[r].pc = "done" /\ creq'[r].code = 400
             /\ creq'[r].error = "Slot already booked"
             /\ creq'[r].bookingId = 0
             /\ bookings' = bookings /\ holds' = holds /\ documents' = documents]_vars

\* a confirm was refused that way although its hold has a signed document, which
\* stays linked to the booking of the confirm that won
C12_Witness ==
    \E r \in ConfReqs, d \in DocIds :
        /\ doneConf(r) /\ creq[r].error = "Slot already booked"
        /\ documents[d].holdId = creq[r].holdId
        /\ documents[d].status = "signed"
        /\ documents[d].bookingId # 0 /\ documents[d].bookingId # creq[r].bookingId
        /\ holds[creq[r].holdId].status = "converted"

Reported(e) ==
    CASE e.type = "slot.held" -> e.id \in HoldIds
      [] e.type = "slot.released" ->
             /\ e.id \in HoldIds
             /\ holds'[e.id].status = (IF e.reason = "canceled" THEN "released" ELSE e.reason)
      [] e.type = "booking.confirmed" -> e.id \in BookingIds
      [] e.type = "booking.canceled" ->
             e.id \in BookingIds /\ bookings'[e.id].status = "canceled"
      [] OTHER -> TRUE

\* C14: every slot.held, slot.released, booking.confirmed and booking.canceled event
\* is published when the state change it reports is already committed
C14_EventsAfterCommit ==
    [][\A e \in BagToSet(bus') : CopiesIn(e, bus') > CopiesIn(e, bus) => Reported(e)]_vars

\* the four kinds of event have been published, slot.released with every reason
C14_Witness ==
    /\ \E h \in HoldIds : CopiesIn(SlotHeld(h), bus) > 0
    /\ \E h \in HoldIds : CopiesIn(SlotReleased(h, "converted"), bus) > 0
    /\ \E h \in HoldIds : CopiesIn(SlotReleased(h, "canceled"), bus) > 0
                          \/ CopiesIn(SlotReleased(h, "expired"), bus) > 0
    /\ \E b \in BookingIds : /\ CopiesIn(BookingConfirmed(b), bus) > 0
                             /\ CopiesIn(BookingCanceled(b), bus) > 0

\* the sweeper has expired a hold on the slot of request r and published its release
sweptFor(r) ==
    \E h \in rowsOn(hreq[r].mt, hreq[r].slotStart, hreq[r].slotEnd) :
        /\ holds[h].status = "expired"
        /\ CopiesIn(SlotReleased(h, "expired"), bus) > 0

\* no active hold other than r's own and no confirmed booking meets the slot of r
nothingElseOn(r) ==
    /\ \A h \in rowsOn(hreq[r].mt, hreq[r].slotStart, hreq[r].slotEnd) :
           holds[h].status = "active" => h = hreq[r].holdId
    /\ \A b \in BookingIds :
           (bookings[b].mt = hreq[r].mt /\ bookings[b].status = "confirmed")
           => Disjoint(bookings[b].slotStart, bookings[b].slotEnd,
                       hreq[r].slotStart, hreq[r].slotEnd)

\* the key of request r is used by no other request and by no row but r's own
freshKey(r) ==
    /\ \A q \in HoldReqs \ {r} : hreq[q].pc # "idle" => hreq[q].key # hreq[r].key
    /\ \A h \in HoldIds : holds[h].key = hreq[r].key => h = hreq[r].holdId

\* request r was issued after every other request had been answered
subsequent(r) ==
    /\ hreq[r].conc = {}
    /\ \A q \in HoldReqs \ {r} : hreq[q].pc \in {"idle", "done"} /\ r \notin hreq[q].conc

\* C15: once the sweeper has expired the hold on a slot, a subsequent create-hold for
\* that slot with a fresh key succeeds as long as no other active hold and no confirmed
\* booking meets the slot: the step that answers it answers 201 with a row of its own
C15_SweptSlotCanBeHeld ==
    [][\A r \in HoldReqs :
          (/\ hreq[r].pc \notin {"idle", "done"} /\ hreq'[r].pc = "done"
           /\ sweptFor(r) /\ nothingElseOn(r) /\ freshKey(r) /\ subsequent(r))
          => /\ hreq'[r].code = 201
             /\ hreq'[r].holdId \in HoldIds
             /\ holds[hreq'[r].holdId].key = hreq[r].key
             /\ holds[hreq'[r].holdId].slotStart = hreq[r].slotStart]_vars

\* a request that found its slot swept, alone and with a fresh key, was answered 201
C15_Witness ==
    \E r \in HoldReqs :
        /\ doneHold(r) /\ hreq[r].atCall = "swept" /\ hreq[r].code = 201
        /\ sweptFor(r) /\ freshKey(r) /\ subsequent(r)
        /\ holds[hreq[r].holdId].status = "active"

\* the number of slot.released events with reason expired published for hold h
expiredEvents(h) == CopiesIn(SlotReleased(h, "expired"), bus)

\* C16: however often the sweeper runs, a hold gets at most one slot.released event
\* with reason expired; the event is published by the step that takes the row from
\* active to expired, and a row that is already expired, released or converted gets none
C16_SweptOnce ==
    /\ [](\A h \in HoldIds : expiredEvents(h) <= 1)
    /\ [][\A h \in HoldIds :
             CopiesIn(SlotReleased(h, "expired"), bus') > expiredEvents(h)
             => (holds[h].status = "active" /\ holds'[h].status = "expired")]_vars

\* a sweeper pass has expired one hold and passed over a row that was already
\* released or converted when its expires_at went by
C16_Witness ==
    \E h1, h2 \in HoldIds :
        /\ h1 # h2
        /\ holds[h1].status = "expired" /\ expiredEvents(h1) = 1
        /\ holds[h2].status \in {"released", "converted"}
        /\ holds[h2].expiresAt = holds[h1].expiresAt
        /\ expiredEvents(h2) = 0

\* C17: a booking row is created confirmed; a step changes the status of a booking only
\* from confirmed, to canceled, completed or no_show, so that a canceled, completed or
\* no_show booking keeps its status
C17_BookingStatusMonotonic ==
    [][\A b \in DOMAIN bookings' :
          IF b \in BookingIds
          THEN bookings'[b].status # bookings[b].status
               => /\ bookings[b].status = "confirmed"
                  /\ bookings'[b].status \in {"canceled", "completed", "no_show"}
          ELSE bookings'[b].status = "confirmed"]_vars

\* one booking has been canceled and a later booking of the slot completed or marked no-show
C17_Witness ==
    \E b1, b2 \in BookingIds :
        /\ bookings[b1].status = "canceled"
        /\ bookings[b2].status \in {"completed", "no_show"}

\* the place of a status in the sequence pending, sent, signed, expired, revoked
statusRank(st) ==
    CASE st = "pending" -> 1
      [] st = "sent" -> 2
      [] st = "signed" -> 3
      [] st = "expired" -> 4
      [] st = "revoked" -> 5

\* C18: under any order and repetition of the provider's webhooks and any redelivery of
\* the nda.* events, no step sets a Document to a status earlier in the sequence
\* pending, sent, signed, expired, revoked than the one it has
C18_DocumentStatusForward ==
    [][\A d \in DocIds :
          statusRank(documents'[d].status) >= statusRank(documents[d].status)]_vars

\* C19: at the step that publishes an nda.signed event the Document it references has
\* status signed and a signed_at
C19_SignedEventMeansSigned ==
    [][\A e \in BagToSet(bus') :
          (e.type = "nda.signed" /\ CopiesIn(e, bus') > CopiesIn(e, bus))
          => /\ e.id \in DocIds
             /\ documents[e.id].status = "signed"
             /\ documents[e.id].signedAt # 0]_vars

\* request q processed the webhook wid to completed
completedBy(q, wid) ==
    /\ wreq[q].pc = "done" /\ wreq[q].code = 200 /\ ~ wreq[q].replay
    /\ webhookId(wreq[q].doc, wreq[q].event) = wid

\* C20: a delivery that arrives when the record of its (provider, webhook_id) is
\* completed is answered at once with the cached response body, which is the body the
\* call that completed it answered, and changes no Document, no record and publishes
\* no event
C20_ReplayIsCached ==
    [][\A r \in WebReqs :
          LET wid == webhookId(wreq'[r].doc, wreq'[r].event)
          IN (/\ wreq[r].pc = "idle" /\ wreq'[r].pc # "idle"
              /\ wid \in DOMAIN webhooks /\ webhooks[wid].status = "completed")
             => /\ wreq'[r].pc = "done" /\ wreq'[r].code = 200
                /\ wreq'[r].body = webhooks[wid].responseBody
                /\ \A q \in WebReqs : completedBy(q, wid) => wreq'[r].body = wreq[q].body
                /\ documents' = documents /\ bus' = bus /\ webhooks' = webhooks]_vars

\* a replay of a webhook that an earlier delivery completed has been answered
C20_Witness ==
    \E r, q \in WebReqs :
        /\ wreq[r].pc = "done" /\ wreq[r].replay /\ wreq[r].body = "received"
        /\ completedBy(q, widOf(r))
        /\ wreq[r].event = "document_completed"

\* the signature header of a delivery is missing, or differs from the digest of its
\* body under the configured secret
badSignature(sig, d, ev) ==
    \/ sig = <<>>
    \/ env.secret # 0 /\ sig # createHmac(env.secret, d, ev)

\* C21: outside development a delivery whose signature header is missing or is not the
\* HMAC of its body under the shared secret is answered 401 by the step that receives
\* it, and that step writes no ProcessedWebhook record, no Document and no event
C21_BadSignatureRejected ==
    [][\A r \in WebReqs :
          (/\ wreq[r].pc = "idle" /\ wreq'[r].pc # "idle"
           /\ env.nodeEnv # "development"
           /\ badSignature(wreq'[r].signature, wreq'[r].doc, wreq'[r].event))
          => /\ wreq'[r].pc = "done" /\ wreq'[r].code = 401
             /\ webhooks' = webhooks /\ documents' = documents /\ bus' = bus]_vars

\* C22: a failed delivery of a message is negatively acknowledged while the redelivery
\* count read by the handler is below max_deliver - 1; at max_deliver - 1 an entry
\* {original subject, original event, last error, attempts} on subject
\* dlq.<original subject> is stored in the DEAD_LETTER stream and the message is
\* acknowledged
C22_DeadLetterStored ==
    [][\A m \in MsgIds :
          (inbox[m].status = "delivered" /\ inbox'[m].status # "delivered"
           /\ (inbox'[m].naks > inbox[m].naks \/ inbox'[m].dlq))
          => IF redeliveryCount(m) < maxDeliver - 1
             THEN inbox'[m].status = "pending" /\ deadLetter' = deadLetter
             ELSE /\ inbox'[m].status = "acked"
                  /\ Len(deadLetter') = Len(deadLetter) + 1
                  /\ deadLetter'[Len(deadLetter')].subject = <<"dlq">> \o inbox[m].subject
                  /\ deadLetter'[Len(deadLetter')].originalSubject = inbox[m].subject
                  /\ deadLetter'[Len(deadLetter')].originalEvent = m
                  /\ deadLetter'[Len(deadLetter')].attempts = redeliveryCount(m) + 1]_vars

\* the frames client c has received, and the place of the stream when it connected
framesOf(c) == clients[c].frames
connectedAt(c) == clients[c].frames[1].seq

\* message n of the stream has been written to client c
forwarded(c, n) ==
    \E i \in 2..Len(framesOf(c)) :
        framesOf(c)[i].seq = n /\ framesOf(c)[i].event = stream[n].eventType

\* C23: the first frame a client of meeting type M receives is connected; no frame
\* carries an event of another meeting type; and every slot.* or booking.* event of M
\* stored while the client is connected is eventually forwarded to it, unless the
\* client disconnects
C23_ForwardsOwnEvents ==
    /\ [](\A c \in Clients :
             framesOf(c) # <<>>
             => /\ framesOf(c)[1].event = "connected"
                /\ \A i \in 2..Len(framesOf(c)) :
                       /\ framesOf(c)[i].event # "connected"
                       /\ framesOf(c)[i].meetingTypeId = clients[c].meetingTypeId
                       /\ stream[framesOf(c)[i].seq].meetingTypeId = clients[c].meetingTypeId)
    /\ \A c \in Clients, n \in 1..MaxEvents :
           (/\ clients[c].pc = "streaming" /\ n <= Len(stream) /\ n > connectedAt(c)
            /\ stream[n].meetingTypeId = clients[c].meetingTypeId)
           ~> (clients[c].pc = "closed" \/ forwarded(c, n))

\* a connected client has been sent an event of its meeting type stored after it
\* connected and has passed over one of the other meeting type
C23_Witness ==
    \E c \in Clients, n, k \in 1..MaxEvents :
        /\ clients[c].pc = "streaming" /\ n <= Len(stream) /\ k <= Len(stream)
        /\ n > connectedAt(c) /\ forwarded(c, n)
        /\ k > connectedAt(c) /\ k < clients[c].cursor
        /\ stream[k].meetingTypeId # clients[c].meetingTypeId

\* C24: a client receives no event that was stored in the BOOKINGS stream before it
\* connected
C24_NoBacklog ==
    \A c \in Clients :
        \A i \in 2..Len(framesOf(c)) : framesOf(c)[i].seq > connectedAt(c)

\* C25 as stated: every frame has an event type among connected, slot.held,
\* slot.released and booking.confirmed
C25_FrameTypes ==
    \A c \in Clients :
        \A i \in 1..Len(framesOf(c)) :
            framesOf(c)[i].event \in {"connected", "slot.held", "slot.released",
                                      "booking.confirmed"}

\* C25: every frame has an event type among connected, slot.held, slot.released,
\* booking.confirmed and booking.canceled, the subjects of the BOOKINGS stream; no
\* nda.* event reaches a client
C25_FrameTypesWithCanceled ==
    \A c \in Clients :
        \A i \in 1..Len(framesOf(c)) :
            framesOf(c)[i].event \in {"connected", "slot.held", "slot.released",
                                      "booking.confirmed", "booking.canceled"}

\* a client has received the connected frame and a booking.canceled event
C25_Witness ==
    \E c \in Clients :
        /\ framesOf(c) # <<>> /\ framesOf(c)[1].event = "connected"
        /\ \E i \in 2..Len(framesOf(c)) : framesOf(c)[i].event = "booking.canceled"

\* the slots of the last get-slots response
responseSlots == sreq.slots

\* C26: the entries get-slots returns are sorted ascending by start
C26_SortedByStart ==
    sreq.pc = "done"
    => \A i, j \in 1..Len(responseSlots) :
           i < j => responseSlots[i].start <= responseSlots[j].start

\* the active holds and confirmed bookings of the requested meeting type, as intervals
occupancy(mt) ==
    {<<holds[h].slotStart, holds[h].slotEnd>> :
        h \in {x \in HoldIds : holds[x].mt = mt /\ holds[x].status = "active"}}
    \cup {<<bookings[b].slotStart, bookings[b].slotEnd>> :
        b \in {x \in BookingIds : bookings[x].mt = mt /\ bookings[x].status = "confirmed"}}

\* C27: the buffered interval of every returned slot with available = true meets no
\* active hold and no confirmed booking of the meeting type that meets the window
\* expanded by the buffers
C27_AvailableMeetsNoOccupancy ==
    sreq.pc = "done"
    => \A i \in 1..Len(responseSlots) :
           responseSlots[i].available
           => \A o \in occupancy(sreq.mt) :
                  Meets(o[1], o[2],
                        startOfDay(sreq.startDate) - meetingType.bufferBeforeMinutes,
                        startOfDay(sreq.endDate + 1) + meetingType.bufferAfterMinutes)
                  => ~ Meets(responseSlots[i].start - meetingType.bufferBeforeMinutes,
                             responseSlots[i].end + meetingType.bufferAfterMinutes,
                             o[1], o[2])

\* the times at which the windows of the admitted requests began: a window begins
\* with the first request after the previous window has elapsed
RECURSIVE windowsOf(_)
windowsOf(admitted) ==
    IF admitted = <<>> THEN <<>>
    ELSE LET n == Len(admitted)
             front == windowsOf(SubSeq(admitted, 1, n - 1))
         IN Append(front, IF n = 1 \/ admitted[n] > front[n - 1] + windowMs
                          THEN admitted[n] ELSE front[n - 1])

\* no window of the admitted requests holds more than maxRequests of them
withinLimit(admitted) ==
    LET ws == windowsOf(admitted)
    IN \A i \in 1..Len(ws) : Cardinality({j \in 1..Len(ws) : ws[j] = ws[i]}) <= maxRequests

\* the number of requests of ip admitted in the window that is open now
admittedNow(ip) ==
    LET ws == windowsOf(reached[ip])
        n == Len(ws)
    IN IF n = 0 \/ now > ws[n] + windowMs THEN 0
       ELSE Cardinality({j \in 1..n : ws[j] = ws[n]})

\* the step is a create-hold request of ip passing the middleware
requestOf(ip) ==
    /\ ip \in DOMAIN store'
    /\ ip \notin DOMAIN store \/ store'[ip] # store[ip]

\* C28: per client IP at most five create-hold requests of one window are passed on
\* to the handler; a further request of that window is answered 429 with Retry-After
\* and neither reaches the handler nor changes a hold; a request made after the window
\* has elapsed is passed on again
C28_FivePerWindow ==
    /\ [](\A ip \in Ips : withinLimit(reached[ip]))
    /\ [][\A ip \in Ips :
              requestOf(ip)
              => IF admittedNow(ip) >= maxRequests
                 THEN /\ rres'.ip = ip /\ rres'.status = 429 /\ rres'.retryAfter >= 0
                      /\ reached' = reached /\ holds' = holds /\ hreq' = hreq
                 ELSE /\ rres'.ip = ip /\ rres'.status # 429
                      /\ reached'[ip] = Append(reached[ip], now)]_vars

\* one IP has used up its first window and been passed on again after it elapsed,
\* and the other IP has just been refused
C28_Witness ==
    \E ip \in Ips : \E other \in Ips \ {ip} :
        /\ Len(reached[ip]) = maxRequests + 1
        /\ reached[ip][maxRequests + 1] > reached[ip][1] + windowMs
        /\ store[ip].count = 1
        /\ Len(reached[other]) = maxRequests
        /\ rres.ip = other /\ rres.status = 429 /\ rres.retryAfter >= 0

\* C29: a hold that is active with expires_at in the past is eventually no longer
\* active, given that the sweeper keeps running
C29_ExpiredHoldLeavesActive ==
    \A h \in 1..MaxHolds :
        (h \in HoldIds /\ holds[h].status = "active" /\ holds[h].expiresAt < now)
        ~> (h \in HoldIds /\ holds[h].status # "active")

\* a hold that was active past its expires_at has been set to expired by the sweeper
C29_Witness ==
    \E h \in HoldIds :
        /\ holds[h].status = "expired" /\ holds[h].expiresAt < now
        /\ SlotReleased(h, "expired") \in BagToSet(bus)

\* the hold of key k is converted, expired or released
deadHold(k) ==
    \E h \in HoldIds : holds[h].key = k /\ holds[h].status \in {"converted", "expired", "released"}

\* C30: a create-hold call whose idempotency key belongs to a hold that is converted,
\* expired or released fails with 'Previous hold expired' whatever slot it names; the
\* call adds no hold row and changes none, then or later
C30_DeadKeyFails ==
    /\ [][\A r \in HoldReqs :
              (hreq[r].pc = "idle" /\ hreq'[r].pc # "idle" /\ deadHold(hreq'[r].key))
              => /\ hreq'[r].pc = "done" /\ hreq'[r].code = 409
                 /\ hreq'[r].error = "Previous hold expired"
                 /\ hreq'[r].holdId = 0
                 /\ holds' = holds]_vars
    /\ [](\A r \in HoldReqs :
              hreq[r].error = "Previous hold expired"
              => /\ hreq[r].pc = "done"
                 /\ Cardinality(existingHold(hreq[r].key)) = 1
                 /\ \A q \in HoldReqs : hreq[q].holdId \in existingHold(hreq[r].key) => q # r)

\* a create-hold call has failed on the key of a dead hold while naming another slot
\* than that hold's
C30_Witness ==
    \E r \in HoldReqs, h \in HoldIds :
        /\ hreq[r].pc = "done" /\ hreq[r].error = "Previous hold expired"
        /\ holds[h].key = hreq[r].key
        /\ holds[h].status \in {"converted", "expired", "released"}
        /\ holds[h].slotStart # hreq[r].slotStart

\* delivery r leaves the try block of the handler in this step
leavesTry(r) == wreq[r].pc \in {"update", "publish", "mark"} /\ wreq'[r].pc = "done"

\* C31: a delivery whose handler raises is answered 500 and leaves the record failed;
\* a delivery that finds the record failed is processed again, not answered from the
\* cache; and a delivery that succeeds leaves the record completed
C31_FailedIsRetried ==
    [][\A r \in WebReqs :
          /\ (leavesTry(r) /\ wreq'[r].body = "Internal Server Error")
             => /\ wreq'[r].code = 500
                /\ webhooks'[widOf(r)].status = "failed"
          /\ (wreq[r].pc = "idle" /\ wreq'[r].pc # "idle" /\ wreq'[r].code # 401
              /\ webhookId(wreq'[r].doc, wreq'[r].event) \in DOMAIN webhooks
              /\ webhooks[webhookId(wreq'[r].doc, wreq'[r].event)].status = "failed")
             => /\ wreq'[r].pc = "update" /\ ~ wreq'[r].replay
                /\ wreq'[r].existing = "failed"
          /\ (leavesTry(r) /\ wreq'[r].code = 200)
             => /\ webhooks'[widOf(r)].status = "completed"
                /\ wreq'[r].body = "received"]_vars

\* a delivery was answered 500, a later delivery of the same webhook found the record
\* failed, was processed and answered 200, and the record is completed
C31_Witness ==
    \E r, q \in WebReqs :
        /\ wreq[r].pc = "done" /\ wreq[r].code = 500 /\ wreq[r].body = "Internal Server Error"
        /\ wreq[q].pc = "done" /\ wreq[q].code = 200 /\ ~ wreq[q].replay
        /\ wreq[q].existing = "failed"
        /\ widOf(q) = widOf(r)
        /\ webhooks[widOf(r)].status = "completed"

\* the blackout rows whose start time is before their end time, and the whole-day rows
wellFormed(blackouts) ==
    SelectSeq(blackouts, LAMBDA b : b.allDay \/ b.startTime < b.endTime)

\* C32: a partial blackout whose start is at or after its end changes nothing:
\* get-slots answers as it would without that row
C32_MalformedBlackoutIgnored ==
    sreq.pc = "done"
    => sreq.slots = generateSlots(availabilityRules,
                                  wellFormed(getBlackoutDates(sreq.startDate, sreq.endDate)),
                                  getExistingSlots(sreq.mt, sreq.startDate, sreq.endDate),
                                  sreq.startDate, sreq.endDate, sreq.minBookingTime)

\* the host-zone date of an instant
dateOf(t) == t \div DayLen

\* rule covers the slot on its date and the date lies in [effective_from, effective_until)
emitsWithinWindow(rule, slot) ==
    LET d == dateOf(slot.start)
    IN /\ rule.dayOfWeek = weekday(d)
       /\ startOfDay(d) + rule.startTime <= slot.start
       /\ slot.end <= startOfDay(d) + rule.endTime
       /\ rule.effectiveFrom <= d
       /\ rule.effectiveUntil # <<>> => d < rule.effectiveUntil[1]

\* C33: every slot get-slots returns comes from a rule whose effective window
\* [effective_from, effective_until) contains the slot's date
C33_EffectiveWindowHalfOpen ==
    sreq.pc = "done"
    => \A i \in 1..Len(sreq.slots) :
           \E k \in 1..Len(availabilityRules) :
               emitsWithinWindow(availabilityRules[k], sreq.slots[i])

\* C34: in every reachable state no active hold meets a confirmed booking of the same
\* meeting type
C34_ActiveHoldMeetsNoBooking ==
    \A h \in HoldIds, b \in BookingIds :
        (holds[h].status = "active" /\ bookings[b].status = "confirmed"
         /\ holds[h].mt = bookings[b].mt)
        => Disjoint(holds[h].slotStart, holds[h].slotEnd,
                    bookings[b].slotStart, bookings[b].slotEnd)

\* the bookings made from hold h
bookingsFrom(h) == {b \in BookingIds : bookings[b].fromHold = h}

\* C35: a hold is converted exactly when one booking has it as from_hold_id; no hold
\* is the origin of two bookings, and no released or expired hold of a booking
C35_ConvertedIffOneBooking ==
    \A h \in HoldIds :
        /\ holds[h].status = "converted" <=> Cardinality(bookingsFrom(h)) = 1
        /\ Cardinality(bookingsFrom(h)) <= 1
        /\ holds[h].status \in {"released", "expired"} => bookingsFrom(h) = {}

\* the active holds that meet the slot of create-hold request r, whatever their
\* expires_at
activeOn(r) ==
    {h \in HoldIds : /\ holds[h].mt = hreq[r].mt
                     /\ holds[h].status = "active"
                     /\ Meets(holds[h].slotStart, holds[h].slotEnd,
                              hreq[r].slotStart, hreq[r].slotEnd)}

\* create-hold request r obtains a success result in this step
succeeds(r) == hreq[r].pc # "publish" /\ hreq'[r].pc = "publish"

\* C36 as stated: create-hold never succeeds while a hold that meets its slot is active
C36_ActiveHoldBlocks ==
    [][\A r \in HoldReqs :
          succeeds(r)
          => ~ \E h \in HoldIds :
                   /\ holds[h].mt = hreq'[r].mt /\ holds[h].status = "active"
                   /\ Meets(holds[h].slotStart, holds[h].slotEnd,
                            hreq'[r].slotStart, hreq'[r].slotEnd)]_vars

\* C36: a create-hold call whose idempotency key belongs to no hold fails with a
\* conflict (409) at its check or at its insert whenever an active hold meets its
\* slot, also when that hold's expires_at has passed; no call adds a row then
C36_ActiveHoldBlocksNewKey ==
    [][\A r \in HoldReqs :
          /\ (hreq[r].pc \in {"locked", "insert"} /\ hreq'[r].pc # hreq[r].pc
              /\ activeOn(r) # {})
             => /\ holds' = holds
                /\ hreq'[r].pc = "done"
                /\ existingHold(hreq[r].key) = {} => hreq'[r].code = 409
          /\ (succeeds(r) /\ hreq[r].pc = "idle")
             => hreq'[r].holdId \in existingHold(hreq'[r].key)]_vars

\* a create-hold call was refused as 'Slot already held' by an active hold of another
\* key whose expires_at has passed
C36_Witness ==
    \E r \in HoldReqs, h \in HoldIds :
        /\ hreq[r].pc = "done" /\ hreq[r].code = 409 /\ hreq[r].error = "Slot already held"
        /\ h \in activeOn(r)
        /\ holds[h].key # hreq[r].key
        /\ holds[h].expiresAt < now

\* C37: at most one booking.confirmed event is published for each booking
C37_OneConfirmedEvent ==
    \A b \in BookingIds : CopiesIn(BookingConfirmed(b), bus) <= 1

\* C38: a message is acknowledged only when its handler has returned or when a
\* dead-letter entry for it has been stored
C38_AckAfterSuccessOrDlq ==
    [][\A m \in Msgs :
          (inbox[m].status # "acked" /\ inbox'[m].status = "acked")
          => \/ ~ inbox'[m].dlq
             \/ \E i \in 1..Len(deadLetter') : deadLetter'[i].originalEvent = m]_vars

\* delivery r has published the nda.* event of its webhook
hasPublished(r) ==
    /\ wreq[r].event \in {"document_sent", "document_completed", "document_expired"}
    /\ \/ wreq[r].pc = "mark"
       \/ wreq[r].pc = "done" /\ wreq[r].code = 200 /\ ~ wreq[r].replay

\* C39: of the deliveries of one (provider, webhook_id) at most one publishes an
\* nda.* event
C39_OneEventPerWebhook ==
    \A r, q \in WebReqs :
        (r # q /\ hasPublished(r) /\ hasPublished(q)) => widOf(r) # widOf(q)

\* the hold that page p's own create-hold request has taken, if it succeeded
ownHold(p) == IF hreq[p].pc = "done" /\ hreq[p].code = 201 THEN {hreq[p].holdId} ELSE {}

\* C40: a page whose own create-hold request has succeeded keeps its selected slot
\* and is shown no 'Slot taken' notice when the slot.held event of its own hold
\* reaches it, be it before or after the answer to the request.
C40_OwnHeldKeepsSelection ==
    [][\A p \in Pages : \A e \in BagToSet(bus) :
           (e.type = "slot.held" /\ e.id \in ownHold(p) /\ handleSlotHeld(p, e))
               => /\ pages'[p].selectedSlot = pages[p].selectedSlot
                  /\ pages'[p].notices = pages[p].notices]_vars

====
